---- MODULE Spec2Model ----
(***************************************************************************)
(* A model of the clipboard-monitoring pipeline of llama-stack:            *)
(*   src/llama-stack-clipboard.py   the single-item pipeline               *)
(*   src/docs/clipboard.py          the batch variant of the processor     *)
(*   src/experimental/novelty_tracker.py   the NoveltyTracker              *)
(*                                                                         *)
(* Python strings are sequences of one-character strings, so that len(),   *)
(* startswith(), split() and 'in' are computed and not assumed.  None is   *)
(* the empty tuple and a present value x is <<x>> where a value may be     *)
(* None.  Each part of the program has its own specification over its own  *)
(* group of variables; the other groups stay as Init left them.            *)
(***************************************************************************)
EXTENDS Integers, Sequences, FiniteSets, TLC

VARIABLES
    focus,              \* the threads a specification runs: "all", or one loop,
                        \* or "analysis": one analyze_content, calls counted
    \* ---- collector side (llama-stack-clipboard.py) ----
    clipboard,          \* what pyperclip.paste() returns now
    screenshot,         \* what get_latest_screenshot() returns now: None or <<file>>
    assets,             \* digests that name a copy in ASSETS_DIR
    last_content_hash,  \* module global, None at import
    clipboard_lock,     \* "free" or the thread holding it
    content_queue,      \* Queue(maxsize = max_queue_size)
    cpc,                \* where content_collector is
    content,            \* content_collector's local: None or <<item>>
    polls,              \* ghost: calls of process_clipboard_content so far
    prev_capture,       \* ghost: (clipboard, screenshot) read by the previous call
    same_as_prev,       \* ghost: the last call read what the call before it read
    last_got,           \* ghost: seq of the item most recently taken by a get
    got_hash,           \* ghost: the hash of that item, None before any get
    dropped,            \* ghost: the capture last discarded at a full queue, and its poll
    \* ---- processor side (llama-stack-clipboard.py) ----
    ppc,                \* where each content_processor thread is
    item,               \* each thread's local "content": None or <<item>>
    agent_idx,          \* each thread's position in "for agent_id, agent in ..."
    final_response,     \* each thread's final_response: the agent ids recorded
    result_queue,       \* Queue(): (content, analysis) pairs
    dataset,            \* DATASET_FILE: the chunks written, in file order
    produced,           \* ghost: items put on the work queue so far
    gets,               \* ghost: per item, how often a get returned it
    calls,              \* ghost: per item, the agent ids queried, in call order
    inflight,           \* ghost: per item, inference calls not yet returned
    save_failed,        \* ghost: the items whose save_to_dataset raised
    answered,           \* ghost: the items a persona gave a valid response for
    \* ---- NoveltyTracker (experimental/novelty_tracker.py) ----
    key_frequency,      \* Counter(): key -> count
    value_frequency,    \* Counter(): value -> count
    response_history,   \* deque(maxlen = history_size)
    lock,               \* self.lock: "free" or the thread holding it
    baseline_metrics,   \* the dict of the same name
    is_baseline_period, \* the latch
    snapshots,          \* times novelty_baseline.json has been written
    tpc,                \* where each caller of the tracker is
    tcall,              \* each caller's locals: the argument and the loop position
    trk_adds,           \* ghost: add_response calls started
    trk_scores,         \* ghost: get_novelty_score calls started
    trk_done,           \* ghost: the arguments of the add_response calls that
                        \* reached the append, in that order
    access,             \* ghost: the last access to a counter, and the lock then
    \* ---- batch processor (docs/clipboard.py, its own module globals) ----
    doc_content_queue,  \* content_queue of docs/clipboard.py
    doc_result_queue,   \* result_queue of docs/clipboard.py
    doc_dataset,        \* DATASET_FILE as docs/clipboard.py appends to it
    bpc,                \* where each content_processor thread is
    batch,              \* each thread's local batch
    bidx,               \* each thread's position in process_content_batch
    bresults,           \* each thread's results list
    doc_produced,       \* ghost: items put on doc_content_queue so far
    doc_gets,           \* ghost: per item, how often get_nowait returned it
    doc_queried,        \* ghost: per item, how often query_ai was called on it
    dmpc,               \* where main of docs/clipboard.py is in its reporting loop
    interrupts,         \* ghost: the keyboard interrupts delivered to that main
    reported,           \* ghost: the results main has taken off result_queue
    \* ---- one call of analyze_content (llama-stack-clipboard.py) ----
    apc,                \* where analyze_content / query_llama_stack is
    a_content,          \* the argument "content"
    a_idx,              \* position in "for agent_id, agent in AGENT_CONFIG.items()"
    agents_thoughts,    \* the local list of the same name
    a_final,            \* final_response: the entries in insertion order
    a_prev,             \* prev_thoughts of the current iteration
    attempt,            \* query_llama_stack's loop variable
    q_response,         \* the 'response' of the dict query_llama_stack returned
    thought_src,        \* ghost: for each thought, the index of its persona
    outcomes,           \* ghost: per persona attempted, the text it returned
    prompts,            \* ghost: per persona attempted, the rendered prompt
    q_calls,            \* ghost: client calls made for the current prompt
    q_raised,           \* ghost: how many of them raised
    q_sleeps,           \* ghost: retry delays waited for the current prompt
    q_last,             \* ghost: the last thing query_llama_stack did
    q_stream,           \* ghost: the stream the last call of the client gave
    a_calls,            \* ghost: the client calls of this analyze_content,
                        \* counted under the focus "analysis" only
    \* ---- analyze_content_type called on its own ----
    c_content,          \* the argument: an item, with what it was built from
    c_type,             \* "" until the call returns, then what it returned
    \* ---- the read loop of query_llama_stack on an endless stream ----
    s_full,             \* full_response
    s_seen,             \* seen_facts
    s_pc,               \* "reading" while the for loop runs, then "stopped"
    s_tick              \* ghost: flips with every chunk taken from the stream

collVars == <<clipboard, screenshot, assets, last_content_hash, clipboard_lock,
              cpc, content, polls, prev_capture, same_as_prev, last_got,
              got_hash,
              dropped>>

procVars == <<ppc, item, agent_idx, final_response, result_queue, dataset,
              produced, gets, calls, inflight, save_failed, answered>>

trkVars == <<key_frequency, value_frequency, response_history, lock,
             baseline_metrics, is_baseline_period, snapshots, tpc, tcall,
             trk_adds, trk_scores, trk_done, access>>

batchVars == <<doc_content_queue, doc_result_queue, doc_dataset, bpc, batch,
               bidx, bresults, doc_produced, doc_gets, doc_queried, dmpc,
               interrupts, reported>>

anaVars == <<apc, a_content, a_idx, agents_thoughts, a_final, a_prev, attempt,
             q_response, thought_src, outcomes, prompts, q_calls, q_raised,
             q_sleeps, q_last, q_stream, a_calls>>

clsVars == <<c_content, c_type>>

strmVars == <<s_full, s_seen, s_pc, s_tick>>

vars == <<focus, content_queue, collVars, procVars, trkVars, batchVars,
          anaVars, clsVars, strmVars>>

----------------------------------------------------------------------------
(* Bounds of the model *)

\* calls of process_clipboard_content explored (the loop itself is endless)
MaxPolls == 4

\* PERFORMANCE_CONFIG["max_queue_size"] is 100 in the source; the model runs
\* the same code with a small capacity so that "full" is reached
max_queue_size == 2

\* items put on the work queue in the processor specifications
MaxItems == 2

\* add_response and get_novelty_score calls explored
MaxAdds == 2
MaxHistoryAdds == 4
MaxScores == 2

\* PERFORMANCE_CONFIG["baseline_period"] is 100 and history_size is 1000 in
\* the source; the model runs the same code with small values
baseline_period == 2
history_size == 2

\* PERFORMANCE_CONFIG["batch_size"] is 5 in the source; the model runs the
\* same loop with a small batch so that a full batch is reached
batch_size == 2

\* occurrences of an indicator in the texts analyze_content_type is given:
\* 'import ' weighs 5 and '{' weighs 1, so both scores pass 10
MaxImports == 3
MaxBraces == 11
MaxOther == 1

\* chunks in one stream of the inference endpoint
MaxInterrupts == 1
MaxChunks == 2

\* the response ceiling (1000 in query_llama_stack) and truncate_content's
\* max_chars (512) are small in the model, so that texts reach them
response_ceiling == 8
max_chars == 10

(* Program constants *)

\* AI_CONFIG["fallback"]["retry_attempts"]
retry_attempts == 3

\* PERFORMANCE_CONFIG["concurrent_agents"]
concurrent_agents == 2

\* PERFORMANCE_CONFIG["min_content_length"]
min_content_length == 10

----------------------------------------------------------------------------
(* Values *)

None == <<>>
Some(x) == <<x>>

\* clipboard texts: empty, 9 characters (too short), 10 characters (just long
\* enough), 11 characters
EmptyText == <<>>
Short9 == <<"s","h","o","r","t"," ","t","x","t">>
TextA == <<"h","e","l","l","o"," ","t","e","x","t">>
TextB == <<"o","t","h","e","r"," ","t","e","x","t","s">>
\* str() of the two screenshot paths
PathStr1 == <<"~","/","S","/","s","h","o","t","1",".","p","n","g">>
PathStr2 == <<"~","/","S","/","s","h","o","t","2",".","p","n","g">>
\* str(None)
NoneStr == <<"N","o","n","e">>

Texts == {EmptyText, Short9, TextA, TextB}

Bytes1 == <<"P","N","G","1">>
Bytes2 == <<"P","N","G","2">>

\* the files get_latest_screenshot can return: a path and the bytes there
Shots == { [path |-> PathStr1, bytes |-> Bytes1],
           [path |-> PathStr1, bytes |-> Bytes2],
           [path |-> PathStr2, bytes |-> Bytes1] }

----------------------------------------------------------------------------
(* Python str methods, on sequences of characters *)

IsSpace(c) == c \in {" ", "\n", "\t"}

RECURSIVE LStrip(_)
LStrip(s) == IF s # <<>> /\ IsSpace(Head(s)) THEN LStrip(Tail(s)) ELSE s

RECURSIVE RStrip(_)
RStrip(s) ==
    IF s # <<>> /\ IsSpace(s[Len(s)])
    THEN RStrip(SubSeq(s, 1, Len(s) - 1)) ELSE s

\* s.strip()
Strip(s) == RStrip(LStrip(s))

\* c in s, for a single character c
Contains(s, c) == \E i \in 1..Len(s) : s[i] = c

\* s.split(sep) for a single character sep: one part more than there are
\* separators
RECURSIVE Split(_, _)
Split(s, sep) ==
    IF ~Contains(s, sep) THEN <<s>>
    ELSE LET i == CHOOSE i \in 1..Len(s) :
                      s[i] = sep /\ \A j \in 1..(i - 1) : s[j] # sep
         IN  <<SubSeq(s, 1, i - 1)>> \o Split(SubSeq(s, i + 1, Len(s)), sep)

\* sep.join(parts)
RECURSIVE Join(_, _)
Join(parts, sep) ==
    IF parts = <<>> THEN <<>>
    ELSE IF Len(parts) = 1 THEN parts[1]
    ELSE parts[1] \o sep \o Join(Tail(parts), sep)

\* s.startswith(prefix)
StartsWith(s, prefix) ==
    Len(s) >= Len(prefix) /\ SubSeq(s, 1, Len(prefix)) = prefix

\* [f(x) for x in xs if keep(x)] helpers
RECURSIVE SelectLines(_, _)
SelectLines(lines, c) ==
    IF lines = <<>> THEN <<>>
    ELSE (IF Contains(Head(lines), c) THEN <<Head(lines)>> ELSE <<>>)
         \o SelectLines(Tail(lines), c)

----------------------------------------------------------------------------
(* Pure functions of llama-stack-clipboard.py *)

\* hashlib.md5(b).hexdigest(): a function of the bytes, taken to be free of
\* collisions
MD5(b) == <<"md5", b>>

\* str(content) for what process_clipboard_content hashes: the text, the
\* path of the screenshot, or str(None)
StrOf(text_content, latest_screenshot) ==
    IF text_content # EmptyText THEN text_content
    ELSE IF latest_screenshot = None THEN NoneStr
    ELSE latest_screenshot[1].path

get_content_hash(text_content, latest_screenshot) ==
    MD5(StrOf(text_content, latest_screenshot))

get_image_hash(image) == MD5(image.bytes)

\* the path save_image returns: ASSETS_DIR/<image_hash>.png
AssetPath(image) == <<"assets", get_image_hash(image)>>

GateSkipsAnySeen(current_hash, last_hash, text_content) ==
    \/ current_hash = last_hash
    \/ got_hash = Some(current_hash)
    \/ \E i \in 1..Len(content_queue) : content_queue[i].hash = current_hash
    \/ (text_content # EmptyText /\ Len(text_content) < min_content_length)

GateSkipsSameOnly(current_hash, last_hash, text_content) ==
    current_hash = last_hash

GateSkipsShortOnly(current_hash, last_hash, text_content) ==
    text_content # EmptyText /\ Len(text_content) < min_content_length

\* the condition of the early "return None" of process_clipboard_content
GateSkips(current_hash, last_hash, text_content) ==
    \/ current_hash = last_hash
    \/ (text_content # EmptyText /\ Len(text_content) < min_content_length)

----------------------------------------------------------------------------
(* The parts of the state each specification leaves alone *)

CollFrame ==
    UNCHANGED <<focus, procVars, trkVars, batchVars, anaVars, clsVars,
                strmVars>>
ProcFrame ==
    UNCHANGED <<focus, collVars, trkVars, batchVars, anaVars, clsVars,
                strmVars>>
TrkFrame ==
    UNCHANGED <<focus, content_queue, collVars, procVars, batchVars, anaVars,
                clsVars, strmVars>>
BatchFrame ==
    UNCHANGED <<focus, content_queue, collVars, procVars, trkVars, anaVars,
                clsVars, strmVars>>
AnaFrame ==
    UNCHANGED <<focus, content_queue, collVars, procVars, trkVars, batchVars,
                clsVars, strmVars>>
ClsFrame ==
    UNCHANGED <<focus, content_queue, collVars, procVars, trkVars, batchVars,
                anaVars, strmVars>>
StrmFrame ==
    UNCHANGED <<focus, content_queue, collVars, procVars, trkVars, batchVars,
                anaVars, clsVars>>

----------------------------------------------------------------------------
(* content_collector *)

CollInit ==
    /\ clipboard \in Texts
    /\ screenshot \in {None} \cup {Some(s) : s \in Shots}
    /\ assets = {}
    /\ last_content_hash = None
    /\ clipboard_lock = "free"
    /\ content_queue = <<>>
    /\ cpc = "poll"
    /\ content = None
    /\ polls = 0
    /\ prev_capture = None
    /\ same_as_prev = FALSE
    /\ last_got = 0
    /\ got_hash = None
    /\ dropped = None

\* the user copies something; the program reads the clipboard only inside
\* process_clipboard_content, so a change at any moment is a change before
\* the poll that follows it
SetClipboard(t) ==
    /\ CollFrame
    /\ cpc = "poll"
    /\ t # clipboard
    /\ clipboard' = t
    /\ UNCHANGED <<screenshot, assets, last_content_hash, clipboard_lock,
                   content_queue, cpc, content, polls, prev_capture,
                   same_as_prev, last_got>>
    /\ UNCHANGED dropped
    /\ UNCHANGED got_hash

\* a screenshot is taken, replaced or removed, before the poll that
\* follows
SetScreenshot(s) ==
    /\ CollFrame
    /\ cpc = "poll"
    /\ s # screenshot
    /\ screenshot' = s
    /\ UNCHANGED <<clipboard, assets, last_content_hash, clipboard_lock,
                   content_queue, cpc, content, polls, prev_capture,
                   same_as_prev, last_got>>
    /\ UNCHANGED dropped
    /\ UNCHANGED got_hash

CollectorPollNoLock ==
    /\ CollFrame
    /\ cpc = "poll"
    /\ polls < MaxPolls
    /\ cpc' = "gate"
    /\ UNCHANGED <<clipboard, screenshot, assets, last_content_hash,
                   clipboard_lock, content_queue, content, polls,
                   prev_capture, same_as_prev, last_got, dropped>>
    /\ UNCHANGED got_hash

\* content_collector calls process_clipboard_content: "with clipboard_lock"
CollectorPoll ==
    /\ CollFrame
    /\ cpc = "poll"
    /\ polls < MaxPolls
    /\ clipboard_lock = "free"
    /\ clipboard_lock' = "collector"
    /\ cpc' = "gate"
    /\ UNCHANGED <<clipboard, screenshot, assets, last_content_hash,
                   content_queue, content, polls, prev_capture, same_as_prev,
                   last_got>>
    /\ UNCHANGED dropped
    /\ UNCHANGED got_hash

\* the body of process_clipboard_content under the lock, to its return or
\* to the exception that leaves it; leaving the with block releases the lock
CollectorGate ==
    /\ CollFrame
    /\ cpc = "gate"
    /\ clipboard_lock = "collector"
    /\ clipboard_lock' = "free"
    /\ polls' = polls + 1
    /\ prev_capture' = Some(<<clipboard, screenshot>>)
    /\ same_as_prev' = (prev_capture = Some(<<clipboard, screenshot>>))
    /\ LET text_content == clipboard
           latest_screenshot == screenshot
           current_hash == get_content_hash(text_content, latest_screenshot)
       IN  IF GateSkips(current_hash, last_content_hash, text_content)
           THEN /\ content' = None
                /\ cpc' = "check"
                /\ UNCHANGED <<last_content_hash, assets>>
           ELSE /\ last_content_hash' = current_hash
                /\ IF text_content # EmptyText
                   THEN /\ content' = Some([type |-> "text",
                                            content |-> text_content,
                                            hash |-> current_hash,
                                            seq |-> polls + 1])
                        /\ cpc' = "check"
                        /\ UNCHANGED assets
                   ELSE IF latest_screenshot # None
                   THEN \* save_image: get_image_hash, then shutil.copy
                        \/ /\ assets' = assets \cup
                                        {get_image_hash(latest_screenshot[1])}
                           /\ content' = Some([type |-> "image",
                                     content |-> AssetPath(latest_screenshot[1]),
                                     hash |-> current_hash,
                                     seq |-> polls + 1])
                           /\ cpc' = "check"
                        \/ \* open() or shutil.copy raises
                           /\ cpc' = "except"
                           /\ UNCHANGED <<assets, content>>
                   ELSE \* nothing on the clipboard, no screenshot
                        /\ content' = None
                        /\ cpc' = "check"
                        /\ UNCHANGED assets
    /\ UNCHANGED <<clipboard, screenshot, content_queue, last_got>>
    /\ dropped' = IF dropped # None
                     /\ dropped[1].capture # <<clipboard, screenshot>>
                  THEN None ELSE dropped
    /\ UNCHANGED got_hash

CollectorCheckNoFullTest ==
    /\ CollFrame
    /\ cpc = "check"
    /\ cpc' = IF content # None THEN "put" ELSE "sleep"
    /\ UNCHANGED <<clipboard, screenshot, assets, last_content_hash,
                   clipboard_lock, content_queue, content, polls,
                   prev_capture, same_as_prev, last_got>>
    /\ UNCHANGED dropped
    /\ UNCHANGED got_hash

\* "if content and not content_queue.full()"
CollectorCheck ==
    /\ CollFrame
    /\ cpc = "check"
    /\ cpc' = IF content # None /\ Len(content_queue) < max_queue_size
              THEN "put" ELSE "sleep"
    /\ UNCHANGED <<clipboard, screenshot, assets, last_content_hash,
                   clipboard_lock, content_queue, content, polls,
                   prev_capture, same_as_prev, last_got>>
    /\ dropped' = IF content # None /\ Len(content_queue) >= max_queue_size
                  THEN Some([capture |-> prev_capture[1], seq |-> polls])
                  ELSE dropped
    /\ UNCHANGED got_hash

\* content_queue.put(content): Queue.put blocks while the queue is full
CollectorPut ==
    /\ CollFrame
    /\ cpc = "put"
    /\ Len(content_queue) < max_queue_size
    /\ content_queue' = Append(content_queue, content[1])
    /\ cpc' = "sleep"
    /\ UNCHANGED <<clipboard, screenshot, assets, last_content_hash,
                   clipboard_lock, content, polls, prev_capture,
                   same_as_prev, last_got>>
    /\ UNCHANGED dropped
    /\ UNCHANGED got_hash

\* "except Exception as e: print(...)"
CollectorExcept ==
    /\ CollFrame
    /\ cpc = "except"
    /\ cpc' = "sleep"
    /\ UNCHANGED <<clipboard, screenshot, assets, last_content_hash,
                   clipboard_lock, content_queue, content, polls,
                   prev_capture, same_as_prev, last_got>>
    /\ UNCHANGED dropped
    /\ UNCHANGED got_hash

\* time.sleep(poll_interval), then the next iteration
CollectorSleep ==
    /\ CollFrame
    /\ cpc = "sleep"
    /\ cpc' = "poll"
    /\ UNCHANGED <<clipboard, screenshot, assets, last_content_hash,
                   clipboard_lock, content_queue, content, polls,
                   prev_capture, same_as_prev, last_got>>
    /\ UNCHANGED dropped
    /\ UNCHANGED got_hash

\* a processor thread's content_queue.get(timeout=...) taking the head
QueueGet ==
    /\ CollFrame
    /\ content_queue # <<>>
    /\ last_got' = Head(content_queue).seq
    /\ content_queue' = Tail(content_queue)
    /\ UNCHANGED <<clipboard, screenshot, assets, last_content_hash,
                   clipboard_lock, cpc, content, polls, prev_capture,
                   same_as_prev>>
    /\ UNCHANGED dropped
    /\ got_hash' = Some(Head(content_queue).hash)

----------------------------------------------------------------------------
(* content_processor, analyze_content and save_to_dataset of                *)
(* llama-stack-clipboard.py, run by concurrent_agents threads.              *)
(* In this specification a response is only valid or not; the texts are     *)
(* in the specification of analyze_content further down.                    *)

\* the threads main starts: range(PERFORMANCE_CONFIG["concurrent_agents"])
Threads == 1..concurrent_agents

Items == 1..MaxItems

AgentIdsAnalystFirst == <<"analyst", "curator", "synthesizer">>

\* list(AGENT_CONFIG.keys()): the dict's insertion order
AgentIds == <<"curator", "analyst", "synthesizer">>

\* the item the collector would put: identified by its seq
MakeItem(n) == [type |-> "text", content |-> TextA, hash |-> MD5(TextA),
                seq |-> n]

QueueAfterPeek(q) == q

\* what Queue.get leaves in the queue
QueueAfterGet(q) == Tail(q)

ProcInit ==
    /\ ppc = [t \in Threads |-> "get"]
    /\ item = [t \in Threads |-> None]
    /\ agent_idx = [t \in Threads |-> 1]
    /\ final_response = [t \in Threads |-> <<>>]
    /\ result_queue = <<>>
    /\ dataset = <<>>
    /\ produced = 0
    /\ gets = [n \in Items |-> 0]
    /\ calls = [n \in Items |-> <<>>]
    /\ inflight = [n \in Items |-> 0]
    /\ save_failed = {}
    /\ answered = {}

\* the collector's content_queue.put, after its full() test
ProducerPutUpTo(items) ==
    /\ ProcFrame
    /\ produced < items
    /\ Len(content_queue) < max_queue_size
    /\ produced' = produced + 1
    /\ content_queue' = Append(content_queue, MakeItem(produced + 1))
    /\ UNCHANGED <<ppc, item, agent_idx, final_response, result_queue,
                   dataset, gets, calls, inflight>>
    /\ UNCHANGED save_failed
    /\ UNCHANGED answered

\* the collector's content_queue.put(content), for MaxItems items
ProducerPut == ProducerPutUpTo(MaxItems)

\* content_queue.get(timeout=...) returns an item; "if content" holds for
\* every item dict, and analyze_content starts with an empty final_response
ProcGet(t) ==
    /\ ProcFrame
    /\ ppc[t] = "get"
    /\ content_queue # <<>>
    /\ LET c == Head(content_queue)
       IN  /\ item' = [item EXCEPT ![t] = Some(c)]
           /\ gets' = [gets EXCEPT ![c.seq] = @ + 1]
    /\ content_queue' = QueueAfterGet(content_queue)
    /\ agent_idx' = [agent_idx EXCEPT ![t] = 1]
    /\ final_response' = [final_response EXCEPT ![t] = <<>>]
    /\ ppc' = [ppc EXCEPT ![t] = "loop"]
    /\ UNCHANGED <<result_queue, dataset, produced, calls, inflight>>
    /\ UNCHANGED save_failed
    /\ UNCHANGED answered

\* the get times out: QueueEmpty, "continue"
ProcGetEmpty(t) ==
    /\ ProcFrame
    /\ ppc[t] = "get"
    /\ content_queue = <<>>
    /\ UNCHANGED <<content_queue, procVars>>
    /\ UNCHANGED answered

\* one iteration of the loop over AGENT_CONFIG up to the call of
\* query_llama_stack, which blocks the thread until it returns
QueryCall(t) ==
    /\ ProcFrame
    /\ ppc[t] = "loop"
    /\ agent_idx[t] <= Len(AgentIds)
    /\ calls' = [calls EXCEPT ![item[t][1].seq] =
                    Append(@, AgentIds[agent_idx[t]])]
    /\ inflight' = [inflight EXCEPT ![item[t][1].seq] = @ + 1]
    /\ ppc' = [ppc EXCEPT ![t] = "query"]
    /\ UNCHANGED <<content_queue, item, agent_idx, final_response,
                   result_queue, dataset, produced, gets>>
    /\ UNCHANGED save_failed
    /\ UNCHANGED answered

\* query_llama_stack returns; a response that is empty or starts with
\* 'Error:' is skipped ("continue"), any other is recorded under agent_id
QueryReturn(t, valid) ==
    /\ ProcFrame
    /\ ppc[t] = "query"
    /\ inflight' = [inflight EXCEPT ![item[t][1].seq] = @ - 1]
    /\ final_response' = [final_response EXCEPT ![t] =
            IF valid THEN Append(@, AgentIds[agent_idx[t]]) ELSE @]
    /\ agent_idx' = [agent_idx EXCEPT ![t] = @ + 1]
    /\ ppc' = [ppc EXCEPT ![t] = "loop"]
    /\ UNCHANGED <<content_queue, item, result_queue, dataset, produced,
                   gets, calls>>
    /\ UNCHANGED save_failed
    /\ answered' = IF valid THEN answered \cup {item[t][1].seq}
                   ELSE answered

AnalyzeReturnNoSave(t) ==
    /\ ProcFrame
    /\ ppc[t] = "loop"
    /\ agent_idx[t] > Len(AgentIds)
    /\ ppc' = [ppc EXCEPT ![t] =
                  IF final_response[t] # <<>> THEN "result" ELSE "get"]
    /\ UNCHANGED <<content_queue, item, agent_idx, final_response,
                   result_queue, dataset, produced, gets, calls, inflight,
                   save_failed>>
    /\ UNCHANGED answered

AnalyzeReturnSavesEmpty(t) ==
    /\ ProcFrame
    /\ ppc[t] = "loop"
    /\ agent_idx[t] > Len(AgentIds)
    /\ ppc' = [ppc EXCEPT ![t] = "save"]
    /\ UNCHANGED <<content_queue, item, agent_idx, final_response,
                   result_queue, dataset, produced, gets, calls, inflight,
                   save_failed, answered>>

\* analyze_content returns final_response; "if analysis" is false for {}
AnalyzeReturn(t) ==
    /\ ProcFrame
    /\ ppc[t] = "loop"
    /\ agent_idx[t] > Len(AgentIds)
    /\ ppc' = [ppc EXCEPT ![t] =
                  IF final_response[t] # <<>> THEN "save" ELSE "get"]
    /\ UNCHANGED <<content_queue, item, agent_idx, final_response,
                   result_queue, dataset, produced, gets, calls, inflight>>
    /\ UNCHANGED save_failed
    /\ UNCHANGED answered

\* save_to_dataset: open(DATASET_FILE, "a"), which opens the file or raises
\* OSError into content_processor's "except Exception"
SaveOpen(t, opened) ==
    /\ ProcFrame
    /\ ppc[t] = "save"
    /\ ppc' = [ppc EXCEPT ![t] = IF opened THEN "dump" ELSE "except"]
    /\ save_failed' = IF opened THEN save_failed
                      ELSE save_failed \cup {item[t][1].seq}
    /\ UNCHANGED <<content_queue, item, agent_idx, final_response,
                   result_queue, dataset, produced, gets, calls, inflight>>
    /\ UNCHANGED answered

ProcExceptEndsThread(t) ==
    /\ ProcFrame
    /\ ppc[t] = "except"
    /\ ppc' = [ppc EXCEPT ![t] = "ended"]
    /\ UNCHANGED <<content_queue, item, agent_idx, final_response,
                   result_queue, dataset, produced, gets, calls, inflight,
                   save_failed>>
    /\ UNCHANGED answered

\* "except Exception as e": print, time.sleep(0.1), then the next iteration
ProcExcept(t) ==
    /\ ProcFrame
    /\ ppc[t] = "except"
    /\ ppc' = [ppc EXCEPT ![t] = "get"]
    /\ UNCHANGED <<content_queue, item, agent_idx, final_response,
                   result_queue, dataset, produced, gets, calls, inflight,
                   save_failed>>
    /\ UNCHANGED answered

\* save_to_dataset: json.dump(data, f)
SaveDump(t) ==
    /\ ProcFrame
    /\ ppc[t] = "dump"
    /\ dataset' = Append(dataset, [seq |-> item[t][1].seq, part |-> "json",
                                   ai_response |-> final_response[t],
                                   agent_count |-> Len(AgentIds)])
    /\ ppc' = [ppc EXCEPT ![t] = "newline"]
    /\ UNCHANGED <<content_queue, item, agent_idx, final_response,
                   result_queue, produced, gets, calls, inflight>>
    /\ UNCHANGED save_failed
    /\ UNCHANGED answered

\* save_to_dataset: f.write("\n") and the end of the with block
SaveNewline(t) ==
    /\ ProcFrame
    /\ ppc[t] = "newline"
    /\ dataset' = Append(dataset, [seq |-> item[t][1].seq, part |-> "newline",
                                   ai_response |-> <<>>, agent_count |-> 0])
    /\ ppc' = [ppc EXCEPT ![t] = "result"]
    /\ UNCHANGED <<content_queue, item, agent_idx, final_response,
                   result_queue, produced, gets, calls, inflight>>
    /\ UNCHANGED save_failed
    /\ UNCHANGED answered

PutResultDrops(t) ==
    /\ ProcFrame
    /\ ppc[t] = "result"
    /\ ppc' = [ppc EXCEPT ![t] = "get"]
    /\ UNCHANGED <<content_queue, item, agent_idx, final_response, dataset,
                   result_queue, produced, gets, calls, inflight,
                   save_failed, answered>>

\* result_queue.put((content, analysis)), then the next iteration
PutResult(t) ==
    /\ ProcFrame
    /\ ppc[t] = "result"
    /\ result_queue' = Append(result_queue,
                              <<item[t][1].seq, final_response[t]>>)
    /\ ppc' = [ppc EXCEPT ![t] = "get"]
    /\ UNCHANGED <<content_queue, item, agent_idx, final_response, dataset,
                   produced, gets, calls, inflight>>
    /\ UNCHANGED save_failed
    /\ UNCHANGED answered

----------------------------------------------------------------------------
(* NoveltyTracker of experimental/novelty_tracker.py, shared by the          *)
(* processing threads                                                        *)

\* response texts handed to the tracker: "a:b", "a: b\nc:d", the line
\* "a:b:c" with two colons, and a text without a colon
KV1 == <<"a", ":", "b">>
KV2 == <<"a", ":", " ", "b", "\n", "c", ":", "d">>
TwoColons == <<"a", ":", "b", ":", "c">>
Plain == <<"h", "i">>

TrkTexts == {KV1, KV2, TwoColons, Plain}

\* response_dict arguments: the 'response' texts of the dict's values, in
\* the dict's order
TrkDicts == {<<KV1>>, <<KV2>>, <<Plain, KV1>>, <<KV1, TwoColons>>}

\* response dicts for the history: two without a pair, which add_response
\* always handles to the end, and one with a pair
HistDicts == {<<Plain>>, <<Plain, Plain>>, <<KV1>>}

\* [line.strip().split(':') for line in text.split('\n') if ':' in line]
Pairs(text) ==
    LET lines == SelectLines(Split(text, "\n"), ":")
    IN  [n \in 1..Len(lines) |-> Split(Strip(lines[n]), ":")]

CountNothing(counter, k) == 0

\* Counter()[k]: 0 for a key never counted
Count(counter, k) == IF k \in DOMAIN counter THEN counter[k] ELSE 0

IncForgets(counter, k) == [x \in {k} |-> Count(counter, x) + 1]

\* Counter()[k] += 1
Inc(counter, k) ==
    [x \in (DOMAIN counter) \cup {k} |->
        Count(counter, x) + (IF x = k THEN 1 ELSE 0)]

\* deque(maxlen = history_size).append(x)
DequeAppendKeepsOldest(d, x) ==
    IF Len(d) < history_size THEN Append(d, x) ELSE d

DequeAppend(d, x) ==
    IF Len(d) < history_size THEN Append(d, x)
    ELSE Append(Tail(d), x)

\* the first agent at or after j whose response has a pair, or Len(d) + 1
RECURSIVE NextAgentFrom(_, _)
NextAgentFrom(d, j) ==
    IF j > Len(d) THEN j
    ELSE IF Pairs(d[j]) # <<>> THEN j
    ELSE NextAgentFrom(d, j + 1)

\* novelty_tracker.py defines no DATASET_FILE, the global that line 104 of
\* _save_baseline_metrics reads before it opens any file
DATASET_FILE_defined == FALSE

NoCall == [op |-> "", arg |-> <<>>, j |-> 0, i |-> 0, ks |-> <<>>, vs |-> <<>>,
           raised |-> "", returned |-> FALSE, value |-> <<>>]

\* The scores are floats in the source; here a score is the exact fraction
\* <<numerator, denominator>>, and key_scores and value_scores hold the
\* denominators freq + 1 of the entries 1.0 / (freq + 1).
FracAdd(a, b) == <<a[1] * b[2] + b[1] * a[2], a[2] * b[2]>>

\* the sum of 1.0 / d over the denominators d of a list of scores
RECURSIVE SumScores(_)
SumScores(ds) ==
    IF ds = <<>> THEN <<0, 1>> ELSE FracAdd(<<1, Head(ds)>>, SumScores(Tail(ds)))

\* np.mean(scores)
Mean(ds) == <<SumScores(ds)[1], SumScores(ds)[2] * Len(ds)>>

\* (np.mean(key_scores) + np.mean(value_scores)) / 2
avg_novelty(ks, vs) ==
    <<FracAdd(Mean(ks), Mean(vs))[1], FracAdd(Mean(ks), Mean(vs))[2] * 2>>

TrkInit ==
    /\ key_frequency = <<>>
    /\ value_frequency = <<>>
    /\ response_history = <<>>
    /\ lock = 0
    /\ baseline_metrics = [responses_processed |-> 0, unique_keys |-> {},
                           unique_values |-> {}, response_lengths |-> <<>>]
    /\ is_baseline_period = TRUE
    /\ snapshots = 0
    /\ tpc = [t \in Threads |-> "idle"]
    /\ tcall = [t \in Threads |-> NoCall]
    /\ trk_adds = 0
    /\ trk_scores = 0
    /\ trk_done = <<>>
    /\ access = [thread |-> 0, counter |-> "", kind |-> "", holder |-> 0]

\* add_response(response_dict): "with self.lock"
AddStartUpTo(t, d, adds) ==
    /\ TrkFrame
    /\ tpc[t] = "idle"
    /\ trk_adds < adds
    /\ lock = 0
    /\ lock' = t
    /\ trk_adds' = trk_adds + 1
    /\ tcall' = [tcall EXCEPT ![t] = [NoCall EXCEPT !.op = "add", !.arg = d,
                                      !.j = NextAgentFrom(d, 1), !.i = 1]]
    /\ tpc' = [tpc EXCEPT ![t] = "add_key"]
    /\ UNCHANGED <<key_frequency, value_frequency, response_history,
                   baseline_metrics, is_baseline_period, snapshots,
                   trk_scores, access>>
    /\ UNCHANGED trk_done

\* add_response(response_dict): "with self.lock"
AddStart(t, d) == AddStartUpTo(t, d, MaxAdds)

\* "for k, v in pairs" and "self.key_frequency[k] += 1"; a pair that is
\* not two parts raises ValueError out of add_response
AddKey(t) ==
    /\ TrkFrame
    /\ tpc[t] = "add_key"
    /\ tcall[t].j <= Len(tcall[t].arg)
    /\ LET pair == Pairs(tcall[t].arg[tcall[t].j])[tcall[t].i]
       IN  IF Len(pair) # 2
           THEN /\ lock' = 0
                /\ tpc' = [tpc EXCEPT ![t] = "idle"]
                /\ tcall' = [tcall EXCEPT ![t].raised = "ValueError"]
                /\ UNCHANGED <<key_frequency, access>>
           ELSE /\ key_frequency' = Inc(key_frequency, Strip(pair[1]))
                /\ access' = [thread |-> t, counter |-> "key_frequency",
                              kind |-> "write", holder |-> lock]
                /\ tpc' = [tpc EXCEPT ![t] = "add_value"]
                /\ UNCHANGED <<lock, tcall>>
    /\ UNCHANGED <<value_frequency, response_history, baseline_metrics,
                   is_baseline_period, snapshots, trk_adds, trk_scores>>
    /\ UNCHANGED trk_done

\* "self.value_frequency[v] += 1" and the baseline block of the same pair;
\* file_defined: whether _save_baseline_metrics finds DATASET_FILE, and
\* latch_after: the value line 84 gives is_baseline_period after the save
AddValueWith(t, file_defined, latch_after) ==
    /\ TrkFrame
    /\ tpc[t] = "add_value"
    /\ LET c == tcall[t]
           pairs == Pairs(c.arg[c.j])
           pair == pairs[c.i]
           k == Strip(pair[1])
           v == Strip(pair[2])
           bm == [responses_processed |->
                      baseline_metrics.responses_processed + 1,
                  unique_keys |-> baseline_metrics.unique_keys \cup {k},
                  unique_values |-> baseline_metrics.unique_values \cup {v},
                  response_lengths |->
                      Append(baseline_metrics.response_lengths, Len(pairs))]
           complete == is_baseline_period
                       /\ bm.responses_processed >= baseline_period
           nextj == IF c.i < Len(pairs) THEN c.j
                    ELSE NextAgentFrom(c.arg, c.j + 1)
           nexti == IF c.i < Len(pairs) THEN c.i + 1 ELSE 1
       IN  /\ value_frequency' = Inc(value_frequency, v)
           /\ access' = [thread |-> t, counter |-> "value_frequency",
                         kind |-> "write", holder |-> lock]
           /\ baseline_metrics' =
                 IF is_baseline_period THEN bm ELSE baseline_metrics
           /\ IF complete /\ ~file_defined
              THEN \* _save_baseline_metrics raises NameError
                   /\ lock' = 0
                   /\ tpc' = [tpc EXCEPT ![t] = "idle"]
                   /\ tcall' = [tcall EXCEPT ![t].raised = "NameError"]
                   /\ UNCHANGED <<is_baseline_period, snapshots>>
              ELSE /\ snapshots' = IF complete THEN snapshots + 1
                                   ELSE snapshots
                   /\ is_baseline_period' =
                         IF complete THEN latch_after ELSE is_baseline_period
                   /\ tcall' = [tcall EXCEPT ![t].j = nextj, ![t].i = nexti]
                   /\ tpc' = [tpc EXCEPT ![t] = "add_key"]
                   /\ UNCHANGED lock
    /\ UNCHANGED <<key_frequency, response_history, trk_adds, trk_scores>>
    /\ UNCHANGED trk_done

AddValueSavedLatchOpen(t) == AddValueWith(t, TRUE, TRUE)

AddValue(t) == AddValueWith(t, DATASET_FILE_defined, FALSE)

\* "self.response_history.append(response_dict)" and the end of the with
AddFinish(t) ==
    /\ TrkFrame
    /\ tpc[t] = "add_key"
    /\ tcall[t].j > Len(tcall[t].arg)
    /\ response_history' = DequeAppend(response_history, tcall[t].arg)
    /\ lock' = 0
    /\ tpc' = [tpc EXCEPT ![t] = "idle"]
    /\ tcall' = [tcall EXCEPT ![t].returned = TRUE]
    /\ UNCHANGED <<key_frequency, value_frequency, baseline_metrics,
                   is_baseline_period, snapshots, trk_adds, trk_scores,
                   access>>
    /\ trk_done' = Append(trk_done, tcall[t].arg)

\* get_novelty_score(response_text): the pairs are parsed; no lock is taken
ScoreStart(t, text) ==
    /\ TrkFrame
    /\ tpc[t] = "idle"
    /\ trk_scores < MaxScores
    /\ trk_scores' = trk_scores + 1
    /\ tcall' = [tcall EXCEPT ![t] = [NoCall EXCEPT !.op = "score",
                                      !.arg = <<text>>, !.j = 1, !.i = 1]]
    /\ tpc' = [tpc EXCEPT ![t] = "score_key"]
    /\ UNCHANGED <<key_frequency, value_frequency, response_history, lock,
                   baseline_metrics, is_baseline_period, snapshots,
                   trk_adds, access>>
    /\ UNCHANGED trk_done

\* "for k, v in pairs" and "key_freq = self.key_frequency[k]"
ScoreKey(t) ==
    /\ TrkFrame
    /\ tpc[t] = "score_key"
    /\ tcall[t].i <= Len(Pairs(tcall[t].arg[1]))
    /\ LET pair == Pairs(tcall[t].arg[1])[tcall[t].i]
       IN  IF Len(pair) # 2
           THEN /\ tpc' = [tpc EXCEPT ![t] = "idle"]
                /\ tcall' = [tcall EXCEPT ![t].raised = "ValueError"]
                /\ UNCHANGED access
           ELSE /\ tcall' = [tcall EXCEPT ![t].ks =
                      Append(@, Count(key_frequency, Strip(pair[1])) + 1)]
                /\ access' = [thread |-> t, counter |-> "key_frequency",
                              kind |-> "read", holder |-> lock]
                /\ tpc' = [tpc EXCEPT ![t] = "score_value"]
    /\ UNCHANGED <<key_frequency, value_frequency, response_history, lock,
                   baseline_metrics, is_baseline_period, snapshots,
                   trk_adds, trk_scores>>
    /\ UNCHANGED trk_done

\* "value_freq = self.value_frequency[v]" and the two appends
ScoreValue(t) ==
    /\ TrkFrame
    /\ tpc[t] = "score_value"
    /\ LET pair == Pairs(tcall[t].arg[1])[tcall[t].i]
       IN  /\ tcall' = [tcall EXCEPT
                 ![t].vs = Append(@, Count(value_frequency,
                                           Strip(pair[2])) + 1),
                 ![t].i = @ + 1]
           /\ access' = [thread |-> t, counter |-> "value_frequency",
                         kind |-> "read", holder |-> lock]
    /\ tpc' = [tpc EXCEPT ![t] = "score_key"]
    /\ UNCHANGED <<key_frequency, value_frequency, response_history, lock,
                   baseline_metrics, is_baseline_period, snapshots,
                   trk_adds, trk_scores>>
    /\ UNCHANGED trk_done

\* "return 0.0" when there are no pairs, "return avg_novelty" after the loop
ScoreReturn(t) ==
    /\ TrkFrame
    /\ tpc[t] = "score_key"
    /\ tcall[t].i > Len(Pairs(tcall[t].arg[1]))
    /\ tcall' = [tcall EXCEPT
              ![t].returned = TRUE,
              ![t].value = IF Pairs(tcall[t].arg[1]) = <<>> THEN <<0, 1>>
                           ELSE avg_novelty(tcall[t].ks, tcall[t].vs)]
    /\ tpc' = [tpc EXCEPT ![t] = "idle"]
    /\ UNCHANGED <<key_frequency, value_frequency, response_history, lock,
                   baseline_metrics, is_baseline_period, snapshots,
                   trk_adds, trk_scores, access>>
    /\ UNCHANGED trk_done

----------------------------------------------------------------------------
(* content_processor and process_content_batch of docs/clipboard.py, run by  *)
(* concurrent_agents threads                                                 *)

BatchInit ==
    /\ doc_content_queue = <<>>
    /\ doc_result_queue = <<>>
    /\ doc_dataset = <<>>
    /\ bpc = [t \in Threads |-> "collect"]
    /\ batch = [t \in Threads |-> <<>>]
    /\ bidx = [t \in Threads |-> 1]
    /\ bresults = [t \in Threads |-> <<>>]
    /\ doc_produced = 0
    /\ doc_gets = [n \in Items |-> 0]
    /\ doc_queried = [n \in Items |-> 0]
    /\ dmpc = "top"
    /\ interrupts = 0
    /\ reported = <<>>

\* content_collector of docs/clipboard.py: content_queue.put after full()
DocProducerPut ==
    /\ BatchFrame
    /\ doc_produced < MaxItems
    /\ Len(doc_content_queue) < max_queue_size
    /\ doc_produced' = doc_produced + 1
    /\ doc_content_queue' = Append(doc_content_queue,
                                   MakeItem(doc_produced + 1))
    /\ UNCHANGED <<doc_result_queue, doc_dataset, bpc, batch, bidx, bresults,
                   doc_gets, doc_queried>>
    /\ dmpc # "returned"
    /\ UNCHANGED <<dmpc, interrupts, reported>>

\* "while len(batch) < batch_size and not content_queue.empty()"
BatchTest(t) ==
    /\ BatchFrame
    /\ bpc[t] = "collect"
    /\ bpc' = [bpc EXCEPT ![t] =
                  IF Len(batch[t]) < batch_size /\ doc_content_queue # <<>>
                  THEN "get_nowait" ELSE "process"]
    /\ bidx' = [bidx EXCEPT ![t] = 1]
    /\ bresults' = [bresults EXCEPT ![t] = <<>>]
    /\ UNCHANGED <<doc_content_queue, doc_result_queue, doc_dataset, batch,
                   doc_produced, doc_gets, doc_queried>>
    /\ dmpc # "returned"
    /\ UNCHANGED <<dmpc, interrupts, reported>>

\* "content = content_queue.get_nowait()" and "batch.append(content)"; on an
\* empty queue get_nowait raises Empty, which the loop's
\* "except Exception" handles with "batch = []"
BatchGetNowait(t) ==
    /\ BatchFrame
    /\ bpc[t] = "get_nowait"
    /\ IF doc_content_queue # <<>>
       THEN /\ batch' = [batch EXCEPT ![t] = Append(@, Head(doc_content_queue))]
            /\ doc_gets' = [doc_gets EXCEPT ![Head(doc_content_queue).seq] = @ + 1]
            /\ doc_content_queue' = Tail(doc_content_queue)
       ELSE /\ batch' = [batch EXCEPT ![t] = <<>>]
            /\ UNCHANGED <<doc_content_queue, doc_gets>>
    /\ bpc' = [bpc EXCEPT ![t] = "collect"]
    /\ UNCHANGED <<doc_result_queue, doc_dataset, bidx, bresults,
                   doc_produced, doc_queried>>
    /\ dmpc # "returned"
    /\ UNCHANGED <<dmpc, interrupts, reported>>

\* one iteration of process_content_batch: query_ai(content), and for a
\* response that is not empty results.append and save_to_dataset, which may
\* raise into the iteration's own except
BatchProcessItem(t, outcome) ==
    /\ BatchFrame
    /\ bpc[t] = "process"
    /\ bidx[t] <= Len(batch[t])
    /\ LET c == batch[t][bidx[t]]
       IN  /\ doc_queried' = [doc_queried EXCEPT ![c.seq] = @ + 1]
           /\ bresults' = [bresults EXCEPT ![t] =
                  IF outcome = "empty" THEN @ ELSE Append(@, c.seq)]
           /\ doc_dataset' = IF outcome = "saved"
                             THEN Append(doc_dataset, c.seq) ELSE doc_dataset
    /\ bidx' = [bidx EXCEPT ![t] = @ + 1]
    /\ UNCHANGED <<doc_content_queue, doc_result_queue, bpc, batch,
                   doc_produced, doc_gets>>
    /\ dmpc # "returned"
    /\ UNCHANGED <<dmpc, interrupts, reported>>

\* the end of "if batch": the results are put on result_queue and
\* "batch = []"; with an empty batch only the sleep follows
BatchPutResults(t) ==
    /\ BatchFrame
    /\ bpc[t] = "process"
    /\ bidx[t] > Len(batch[t])
    /\ doc_result_queue' = doc_result_queue \o bresults[t]
    /\ batch' = [batch EXCEPT ![t] = <<>>]
    /\ bpc' = [bpc EXCEPT ![t] = "sleep"]
    /\ UNCHANGED <<doc_content_queue, doc_dataset, bidx, bresults,
                   doc_produced, doc_gets, doc_queried>>
    /\ dmpc # "returned"
    /\ UNCHANGED <<dmpc, interrupts, reported>>

\* time.sleep(0.1), then the next iteration
BatchSleep(t) ==
    /\ BatchFrame
    /\ bpc[t] = "sleep"
    /\ bpc' = [bpc EXCEPT ![t] = "collect"]
    /\ UNCHANGED <<doc_content_queue, doc_result_queue, doc_dataset, batch,
                   bidx, bresults, doc_produced, doc_gets, doc_queried>>
    /\ dmpc # "returned"
    /\ UNCHANGED <<dmpc, interrupts, reported>>

\* main of docs/clipboard.py, the reporting loop: "while True:" and the
\* entry into the inner try
DocMainEnterTry ==
    /\ BatchFrame
    /\ dmpc = "top"
    /\ dmpc' = "get"
    /\ UNCHANGED <<doc_content_queue, doc_result_queue, doc_dataset, bpc,
                   batch, bidx, bresults, doc_produced, doc_gets,
                   doc_queried, interrupts, reported>>

\* result_queue.get(timeout=1) returns a pair
DocMainGot ==
    /\ BatchFrame
    /\ dmpc = "get"
    /\ doc_result_queue # <<>>
    /\ reported' = Append(reported, Head(doc_result_queue))
    /\ doc_result_queue' = Tail(doc_result_queue)
    /\ dmpc' = "report"
    /\ UNCHANGED <<doc_content_queue, doc_dataset, bpc, batch, bidx,
                   bresults, doc_produced, doc_gets, doc_queried,
                   interrupts>>

\* result_queue.get(timeout=1) raises Empty: the bare "except: continue"
DocMainEmpty ==
    /\ BatchFrame
    /\ dmpc = "get"
    /\ doc_result_queue = <<>>
    /\ dmpc' = "top"
    /\ UNCHANGED <<doc_content_queue, doc_result_queue, doc_dataset, bpc,
                   batch, bidx, bresults, doc_produced, doc_gets,
                   doc_queried, interrupts, reported>>

\* the two prints and log_event, to the end of the try or to an exception
\* that the bare except turns into "continue"
DocMainReport ==
    /\ BatchFrame
    /\ dmpc = "report"
    /\ dmpc' = "top"
    /\ UNCHANGED <<doc_content_queue, doc_result_queue, doc_dataset, bpc,
                   batch, bidx, bresults, doc_produced, doc_gets,
                   doc_queried, interrupts, reported>>

\* where main is after a KeyboardInterrupt raised at place at: inside the
\* inner try the bare "except: continue" catches it, and only between two
\* iterations does it reach "except KeyboardInterrupt" of the outer try
DocInterruptHandler(at) == IF at = "top" THEN "returned" ELSE "top"

\* the user presses Ctrl-C: KeyboardInterrupt is raised in the main thread
\* wherever it is
DocMainInterrupt ==
    /\ BatchFrame
    /\ dmpc # "returned"
    /\ interrupts < MaxInterrupts
    /\ interrupts' = interrupts + 1
    /\ dmpc' = DocInterruptHandler(dmpc)
    /\ UNCHANGED <<doc_content_queue, doc_result_queue, doc_dataset, bpc,
                   batch, bidx, bresults, doc_produced, doc_gets,
                   doc_queried, reported>>

----------------------------------------------------------------------------
(* analyze_content, query_llama_stack and their helpers in                  *)
(* llama-stack-clipboard.py, with the texts                                  *)

\* str.count(sub): occurrences that do not overlap
RECURSIVE CountSub(_, _)
CountSub(s, sub) ==
    IF Len(s) < Len(sub) THEN 0
    ELSE IF SubSeq(s, 1, Len(sub)) = sub
         THEN 1 + CountSub(SubSeq(s, Len(sub) + 1, Len(s)), sub)
         ELSE CountSub(Tail(s), sub)

\* code_indicators: <<substring, weight>>
code_indicators ==
    << <<<<"i", "m", "p", "o", "r", "t", " ">>, 5>>,
       <<<<"d", "e", "f", " ">>, 3>>,
       <<<<"c", "l", "a", "s", "s", " ">>, 3>>,
       <<<<"r", "e", "t", "u", "r", "n", " ">>, 3>>,
       <<<<" ", " ", " ", " ">>, 2>>,
       <<<<")", ";">>, 2>>,
       <<<<"}", ";">>, 2>> >>

\* structured_indicators: <<substring, weight>>
structured_indicators ==
    << <<<<"{">>, 1>>,
       <<<<"}">>, 1>>,
       <<<<"[">>, 1>>,
       <<<<"]">>, 1>>,
       <<<<"\"", "k", "e", "y", "\"">>, 2>>,
       <<<<"\"", "v", "a", "l", "u", "e", "\"">>, 2>> >>

\* sum(text.count(indicator) * weight for indicator, weight in table.items())
RECURSIVE WeightedScore(_, _)
WeightedScore(text, table) ==
    IF table = <<>> THEN 0
    ELSE CountSub(text, Head(table)[1]) * Head(table)[2]
         + WeightedScore(text, Tail(table))

analyze_content_typeStructuredFirst(c) ==
    IF c.type # "text" THEN c.type
    ELSE IF WeightedScore(c.content, structured_indicators) > 10
         THEN "structured_data"
    ELSE IF WeightedScore(c.content, code_indicators) >= 10 THEN "code"
    ELSE "natural_text"

analyze_content_type(c) ==
    IF c.type # "text" THEN c.type
    ELSE IF WeightedScore(c.content, code_indicators) > 10 THEN "code"
    ELSE IF WeightedScore(c.content, structured_indicators) > 10
         THEN "structured_data"
    ELSE "natural_text"

\* n copies of a fragment, one after the other
RECURSIVE Repeat(_, _)
Repeat(frag, n) == IF n = 0 THEN <<>> ELSE frag \o Repeat(frag, n - 1)

ImportFrag == <<"i", "m", "p", "o", "r", "t", " ">>
DefFrag == <<"d", "e", "f", " ">>
CloseFrag == <<"}", ";">>
BraceFrag == <<"{">>
KeyFrag == <<"\"", "k", "e", "y", "\"">>

\* the texts analyze_content_type is called with: ni times 'import ', nd
\* times 'def ', nc times '};', nb times '{' and nk times '"key"', each
\* run closed by a word that no indicator matches
ClsCounts ==
    [ni : 0..MaxImports, nd : 0..MaxOther, nc : 0..MaxOther,
     nb : 0..MaxBraces, nk : 0..MaxOther]

ClsText(n) ==
    Repeat(ImportFrag, n.ni) \o <<"x">> \o Repeat(DefFrag, n.nd) \o <<"y">>
    \o Repeat(CloseFrag, n.nc) \o <<" ">> \o Repeat(BraceFrag, n.nb)
    \o <<" ">> \o Repeat(KeyFrag, n.nk)

ClsContents ==
    {[type |-> "text", content |-> ClsText(n), built |-> n] : n \in ClsCounts}
    \cup {[type |-> "image", content |-> PathStr1,
           built |-> [ni |-> 0, nd |-> 0, nc |-> 0, nb |-> 0, nk |-> 0]]}

ClsIdle ==
    /\ c_content = [type |-> "image", content |-> PathStr1,
                    built |-> [ni |-> 0, nd |-> 0, nc |-> 0, nb |-> 0,
                               nk |-> 0]]
    /\ c_type = "image"

ClsInit == c_content \in ClsContents /\ c_type = ""

\* content_type = analyze_content_type(content)
ClassifyCall ==
    /\ ClsFrame
    /\ c_type = ""
    /\ c_type' = analyze_content_type(c_content)
    /\ UNCHANGED c_content

TruncMarker == <<".", ".", ".", " ", "[", "t", "r", "u", "n", "c", "a", "t", "e", "d", "]">>

\* truncate_content(text), with the default max_chars
truncate_content(text) ==
    IF Len(text) <= max_chars THEN text
    ELSE SubSeq(text, 1, max_chars) \o TruncMarker

NoPrevious == <<"n", "o", "_", "p", "r", "e", "v", "i", "o", "u", "s", ":", " ", "t", "r", "u", "e">>

\* "kv_pairs = [line.strip() for line in thought.split('\n') if ':' in line]"
RECURSIVE StripAll(_)
StripAll(lines) ==
    IF lines = <<>> THEN <<>>
    ELSE <<Strip(Head(lines))>> \o StripAll(Tail(lines))

KvPairs(thought) == StripAll(SelectLines(Split(thought, "\n"), ":"))

format_previous_thoughtsNewestFirst(thoughts) ==
    IF thoughts = <<>> THEN NoPrevious
    ELSE Join([i \in 1..Len(thoughts) |->
                  <<AgentIds[i], ":", "\n">>
                  \o Join(KvPairs(thoughts[Len(thoughts) + 1 - i]),
                          <<"\n">>)],
              <<"\n">>)

\* format_previous_thoughts(thoughts): block i is labelled with the i-th key
\* of AGENT_CONFIG; the name is one element of the text
format_previous_thoughts(thoughts) ==
    IF thoughts = <<>> THEN NoPrevious
    ELSE Join([i \in 1..Len(thoughts) |->
                  <<AgentIds[i], ":", "\n">>
                  \o Join(KvPairs(thoughts[i]), <<"\n">>)],
              <<"\n">>)

\* the prompt analyze_content builds; the fixed parts of the f-string and of
\* the agent's prompt_template, before and after {prev_thoughts}, are one
\* element each
Render(agent_id, content_type, prev_thoughts, truncated_content) ==
    <<"Content type detected: ", content_type, "\n", "\n">>
    \o <<<<agent_id, "prompt_template head">>>>
    \o prev_thoughts
    \o <<<<agent_id, "prompt_template tail">>>>
    \o <<"\n", "\n", "Content to analyze:", "\n">>
    \o truncated_content

ErrorPrefix == <<"E", "r", "r", "o", "r", ":">>

\* 'Error: Llama Stack server unavailable'
ErrorResponse == ErrorPrefix \o <<" ", "Llama Stack server unavailable">>

IsFailureEmptyOnly(response_text) == response_text = <<>>

IsFailureErrorOnly(response_text) ==
    StartsWith(response_text, ErrorPrefix)

\* "if not response_text or response_text.startswith('Error:')"
IsFailure(response_text) ==
    response_text = <<>> \/ StartsWith(response_text, ErrorPrefix)

ShouldRetryAlways(a) == a < retry_attempts

\* "if attempt < retry_attempts - 1" in the except clause
ShouldRetry(a) == a < retry_attempts - 1

\* the texts the endpoint streams
Deltas == {<<"a", ":", "1", "\n", "b">>, <<"\n", " ", "c", ":", "2", " ">>}

\* a chunk has event.delta, or choices[0].message.content, or neither; or the
\* iteration raises at this place
Chunks ==
    {[kind |-> "delta", text |-> d] : d \in Deltas}
    \cup {[kind |-> "choice", text |-> ErrorPrefix],
          [kind |-> "other", text |-> <<>>],
          [kind |-> "raise", text |-> <<>>]}

Streams == UNION {[1..n -> Chunks] : n \in 0..MaxChunks}

RECURSIVE ReadChunksNoSeenFacts(_, _, _)
ReadChunksNoSeenFacts(stream, full_response, seen_facts) ==
    IF stream = <<>> THEN full_response
    ELSE LET chunk == Head(stream)
             grown == full_response \o chunk.text
         IN  IF chunk.kind = "raise" THEN full_response
             ELSE IF chunk.kind = "other"
                  THEN ReadChunksNoSeenFacts(Tail(stream), full_response,
                                             seen_facts)
             ELSE IF Len(grown) > response_ceiling THEN grown
             ELSE ReadChunksNoSeenFacts(Tail(stream), grown, seen_facts)

RECURSIVE ReadChunksRaiseLosesText(_, _, _)
ReadChunksRaiseLosesText(stream, full_response, seen_facts) ==
    IF stream = <<>> THEN full_response
    ELSE LET chunk == Head(stream)
             grown == IF chunk.text \in seen_facts THEN full_response
                      ELSE full_response \o chunk.text
         IN  IF chunk.kind = "raise" THEN <<>>
             ELSE IF chunk.kind = "other"
                  THEN ReadChunksRaiseLosesText(Tail(stream), full_response,
                                                seen_facts)
             ELSE IF Len(grown) > response_ceiling THEN grown
             ELSE ReadChunksRaiseLosesText(Tail(stream), grown,
                                           seen_facts \cup {chunk.text})

\* the "for chunk in response" loop of query_llama_stack from full_response
\* and seen_facts on, to full_response at the end of the inner try
RECURSIVE ReadChunks(_, _, _)
ReadChunks(stream, full_response, seen_facts) ==
    IF stream = <<>> THEN full_response
    ELSE LET chunk == Head(stream)
             grown == IF chunk.text \in seen_facts THEN full_response
                      ELSE full_response \o chunk.text
         IN  IF chunk.kind = "raise" THEN full_response
             ELSE IF chunk.kind = "other"
                  THEN ReadChunks(Tail(stream), full_response, seen_facts)
             ELSE IF Len(grown) > response_ceiling THEN grown
             ELSE ReadChunks(Tail(stream), grown,
                             seen_facts \cup {chunk.text})

\* the deltas of an endless stream: none is empty
StreamDeltas ==
    {<<"a">>, <<"b">>, <<"c", "c">>, <<"d", "d">>, <<"e", "e", "e">>}

StrmIdle ==
    /\ s_full = <<>> /\ s_seen = {} /\ s_pc = "stopped" /\ s_tick = 0

\* "full_response = ''" and "seen_facts = set()", before the for loop
StrmInit ==
    /\ s_full = <<>> /\ s_seen = {} /\ s_pc = "reading" /\ s_tick = 0

\* one turn of "for chunk in response" with a chunk whose event.delta is d:
\* the text is appended unless seen before, and the loop breaks when the
\* response has passed the ceiling
StreamRead(d) ==
    /\ StrmFrame
    /\ s_pc = "reading"
    /\ LET chunk == [kind |-> "delta", text |-> d]
           full_response == ReadChunks(<<chunk>>, s_full, s_seen)
       IN  /\ s_full' = full_response
           /\ s_seen' = s_seen \cup {d}
           /\ s_pc' = IF Len(full_response) > response_ceiling
                      THEN "stopped" ELSE "reading"
    /\ s_tick' = 1 - s_tick

\* the items analysed: two texts (the second longer than max_chars) and an
\* image, whose content is the path save_image returned
AnaContents ==
    { [type |-> "text", content |-> TextA, hash |-> MD5(TextA), seq |-> 1],
      [type |-> "text", content |-> TextB, hash |-> MD5(TextB), seq |-> 1],
      [type |-> "image",
       content |-> AssetPath([path |-> PathStr1, bytes |-> Bytes1]),
       hash |-> MD5(PathStr1), seq |-> 1] }

AnaRest ==
    /\ a_idx = 1
    /\ agents_thoughts = <<>>
    /\ a_final = <<>>
    /\ a_prev = <<>>
    /\ attempt = 0
    /\ q_response = None
    /\ thought_src = <<>>
    /\ outcomes = <<>>
    /\ prompts = <<>>
    /\ q_calls = 0
    /\ q_raised = 0
    /\ q_sleeps = 0
    /\ q_last = "none"
    /\ q_stream = <<>>
    /\ a_calls = 0

\* analyze_content(content) has been called: content_type computed, the
\* lists empty
AnaInit == apc = "loop" /\ a_content \in AnaContents /\ AnaRest

\* no call of analyze_content, for the specifications that do not run it
AnaIdle == apc = "idle" /\ a_content = MakeItem(1) /\ AnaRest

\* one iteration up to the call of query_llama_stack(prompt), which enters
\* its "for attempt in range(retry_attempts)"
AnaRender ==
    /\ AnaFrame
    /\ apc = "loop"
    /\ a_idx <= Len(AgentIds)
    /\ LET prev_thoughts == format_previous_thoughts(agents_thoughts)
       IN  /\ a_prev' = prev_thoughts
           /\ prompts' = Append(prompts,
                 Render(AgentIds[a_idx], analyze_content_type(a_content),
                        prev_thoughts, truncate_content(a_content.content)))
    /\ attempt' = 0
    /\ q_calls' = 0
    /\ q_raised' = 0
    /\ q_sleeps' = 0
    /\ q_last' = "enter"
    /\ q_stream' = <<>>
    /\ apc' = "call"
    /\ UNCHANGED <<a_content, a_idx, agents_thoughts, a_final, q_response,
                   thought_src, outcomes>>
    /\ UNCHANGED a_calls

\* client.inference.chat_completion raises: the outer except either goes on
\* to the retry delay or returns the 'Error:' response
AnaClientRaises ==
    /\ AnaFrame
    /\ apc = "call"
    /\ q_calls' = q_calls + 1
    /\ q_raised' = q_raised + 1
    /\ q_last' = "raise"
    /\ UNCHANGED q_stream
    /\ IF ShouldRetry(attempt)
       THEN apc' = "sleep" /\ UNCHANGED q_response
       ELSE apc' = "returned" /\ q_response' = Some(ErrorResponse)
    /\ UNCHANGED <<a_content, a_idx, agents_thoughts, a_final, a_prev,
                   attempt, thought_src, outcomes, prompts, q_sleeps>>
    /\ a_calls' = IF focus = "analysis" THEN a_calls + 1 ELSE a_calls

\* client.inference.chat_completion returns a stream, which is read to its
\* end, to the ceiling or to the exception the inner except swallows; then
\* "return {'response': full_response.strip(), ...}"
AnaClientStreams(stream) ==
    /\ AnaFrame
    /\ apc = "call"
    /\ q_calls' = q_calls + 1
    /\ q_last' = "stream"
    /\ q_stream' = stream
    /\ q_response' = Some(Strip(ReadChunks(stream, <<>>, {})))
    /\ apc' = "returned"
    /\ UNCHANGED <<a_content, a_idx, agents_thoughts, a_final, a_prev,
                   attempt, thought_src, outcomes, prompts, q_raised,
                   q_sleeps>>
    /\ a_calls' = IF focus = "analysis" THEN a_calls + 1 ELSE a_calls

AnaSleepSameAttempt ==
    /\ AnaFrame
    /\ apc = "sleep"
    /\ q_sleeps' = q_sleeps + 1
    /\ q_last' = "sleep"
    /\ UNCHANGED q_stream
    /\ attempt' = 0
    /\ apc' = "call" /\ UNCHANGED q_response
    /\ UNCHANGED <<a_content, a_idx, agents_thoughts, a_final, a_prev,
                   thought_src, outcomes, prompts, q_calls, q_raised>>
    /\ UNCHANGED a_calls

\* time.sleep(retry_delay) and the next attempt; when the range is used up
\* the function ends without a return statement, which returns None
AnaSleep ==
    /\ AnaFrame
    /\ apc = "sleep"
    /\ q_sleeps' = q_sleeps + 1
    /\ q_last' = "sleep"
    /\ UNCHANGED q_stream
    /\ attempt' = attempt + 1
    /\ IF attempt + 1 < retry_attempts
       THEN apc' = "call" /\ UNCHANGED q_response
       ELSE apc' = "returned" /\ q_response' = None
    /\ UNCHANGED <<a_content, a_idx, agents_thoughts, a_final, a_prev,
                   thought_src, outcomes, prompts, q_calls, q_raised>>
    /\ UNCHANGED a_calls

\* the rest of the iteration: response.get('response', '').strip(), the
\* test for a failure and either "continue" or the two appends; a None
\* response raises AttributeError into analyze_content's except, which
\* returns None
AnaRecord ==
    /\ AnaFrame
    /\ apc = "returned"
    /\ IF q_response = None
       THEN /\ apc' = "failed"
            /\ UNCHANGED <<a_idx, agents_thoughts, a_final, thought_src,
                           outcomes>>
       ELSE LET response_text == Strip(q_response[1])
            IN  /\ outcomes' = Append(outcomes, response_text)
                /\ IF IsFailure(response_text)
                   THEN UNCHANGED <<agents_thoughts, a_final, thought_src>>
                   ELSE /\ agents_thoughts' =
                              Append(agents_thoughts, response_text)
                        /\ thought_src' = Append(thought_src, a_idx)
                        /\ a_final' = Append(a_final,
                              [agent_id |-> AgentIds[a_idx],
                               response |-> response_text,
                               content_type |->
                                   analyze_content_type(a_content),
                               previous_thoughts |-> a_prev])
                /\ a_idx' = a_idx + 1
                /\ apc' = "loop"
    /\ UNCHANGED <<a_content, a_prev, attempt, q_response, prompts, q_calls,
                   q_raised, q_sleeps, q_last>>
    /\ q_stream' = <<>>
    /\ UNCHANGED a_calls

\* "return final_response" after the loop
AnaReturn ==
    /\ AnaFrame
    /\ apc = "loop"
    /\ a_idx > Len(AgentIds)
    /\ apc' = "done"
    /\ UNCHANGED <<a_content, a_idx, agents_thoughts, a_final, a_prev,
                   attempt, q_response, thought_src, outcomes, prompts,
                   q_calls, q_raised, q_sleeps, q_last, q_stream>>
    /\ UNCHANGED a_calls

----------------------------------------------------------------------------
(* Specifications *)

\* the collector side at rest, for the specifications that do not run it
CollIdle ==
    /\ clipboard = EmptyText
    /\ screenshot = None
    /\ assets = {}
    /\ last_content_hash = None
    /\ clipboard_lock = "free"
    /\ cpc = "poll"
    /\ content = None
    /\ polls = 0
    /\ prev_capture = None
    /\ same_as_prev = FALSE
    /\ last_got = 0
    /\ got_hash = None
    /\ dropped = None

InitProc ==
    /\ focus = "all"
    /\ content_queue = <<>> /\ CollIdle /\ ProcInit /\ TrkInit /\ BatchInit
    /\ AnaIdle /\ ClsIdle /\ StrmIdle

NextProc ==
    \/ ProducerPut
    \/ \E t \in Threads : ProcGet(t)
    \/ \E t \in Threads : ProcGetEmpty(t)
    \/ \E t \in Threads : QueryCall(t)
    \/ \E t \in Threads : \E valid \in BOOLEAN : QueryReturn(t, valid)
    \/ \E t \in Threads : AnalyzeReturn(t)
    \/ \E t \in Threads : \E opened \in BOOLEAN : SaveOpen(t, opened)
    \/ \E t \in Threads : ProcExcept(t)
    \/ \E t \in Threads : SaveDump(t)
    \/ \E t \in Threads : SaveNewline(t)
    \/ \E t \in Threads : PutResult(t)

\* two processor threads fed by the collector's put
SpecProc == InitProc /\ [][NextProc]_vars

Init ==
    focus = "all" /\ CollInit /\ ProcInit /\ TrkInit /\ BatchInit /\ AnaIdle /\ ClsIdle /\ StrmIdle

Next ==
    \/ \E t \in Texts : SetClipboard(t)
    \/ \E s \in {None} \cup {Some(x) : x \in Shots} : SetScreenshot(s)
    \/ CollectorPoll
    \/ CollectorGate
    \/ CollectorCheck
    \/ CollectorPut
    \/ CollectorExcept
    \/ CollectorSleep
    \/ QueueGet

Spec == Init /\ [][Next]_vars

InitTracker ==
    /\ focus = "all"
    /\ content_queue = <<>> /\ CollIdle /\ ProcInit /\ TrkInit /\ BatchInit
    /\ AnaIdle /\ ClsIdle /\ StrmIdle

NextTracker ==
    \/ \E t \in Threads : \E d \in TrkDicts : AddStart(t, d)
    \/ \E t \in Threads : AddKey(t)
    \/ \E t \in Threads : AddValue(t)
    \/ \E t \in Threads : AddFinish(t)
    \/ \E t \in Threads : \E text \in TrkTexts : ScoreStart(t, text)
    \/ \E t \in Threads : ScoreKey(t)
    \/ \E t \in Threads : ScoreValue(t)
    \/ \E t \in Threads : ScoreReturn(t)

\* the threads that share the module's novelty_tracker
SpecTracker == InitTracker /\ [][NextTracker]_vars

NextHistory ==
    \/ \E t \in Threads : \E d \in HistDicts :
           AddStartUpTo(t, d, MaxHistoryAdds)
    \/ \E t \in Threads : AddKey(t)
    \/ \E t \in Threads : AddValue(t)
    \/ \E t \in Threads : AddFinish(t)

\* add_response called more often than the history has room
SpecHistory == InitTracker /\ [][NextHistory]_vars

InitBatch ==
    /\ focus = "all"
    /\ content_queue = <<>> /\ CollIdle /\ ProcInit /\ TrkInit /\ BatchInit
    /\ AnaIdle /\ ClsIdle /\ StrmIdle

NextBatch ==
    \/ DocProducerPut
    \/ \E t \in Threads : BatchTest(t)
    \/ \E t \in Threads : BatchGetNowait(t)
    \/ \E t \in Threads :
          \E outcome \in {"saved", "empty", "save_raises"} :
             BatchProcessItem(t, outcome)
    \/ \E t \in Threads : BatchPutResults(t)
    \/ \E t \in Threads : BatchSleep(t)
    \/ DocMainEnterTry
    \/ DocMainGot
    \/ DocMainEmpty
    \/ DocMainReport
    \/ DocMainInterrupt

\* the two batch processor threads of docs/clipboard.py
SpecBatch == InitBatch /\ [][NextBatch]_vars

InitAnalyze ==
    /\ focus = "all"
    /\ content_queue = <<>> /\ CollIdle /\ ProcInit /\ TrkInit /\ BatchInit
    /\ AnaInit /\ ClsIdle /\ StrmIdle

NextAnalyze ==
    \/ AnaRender
    \/ AnaClientRaises
    \/ \E stream \in Streams : AnaClientStreams(stream)
    \/ AnaSleep
    \/ AnaRecord
    \/ AnaReturn

\* one call of analyze_content against an endpoint that may raise or stream
SpecAnalyze == InitAnalyze /\ [][NextAnalyze]_vars

\* the streams of at most one chunk
ShortStreams == {stream \in Streams : Len(stream) <= 1}

InitAnalyzeFair ==
    /\ focus = "analysis"
    /\ content_queue = <<>> /\ CollIdle /\ ProcInit /\ TrkInit /\ BatchInit
    /\ AnaInit /\ ClsIdle /\ StrmIdle

NextAnalyzeFair ==
    \/ AnaRender
    \/ AnaClientRaises
    \/ \E stream \in ShortStreams : AnaClientStreams(stream)
    \/ AnaSleep
    \/ AnaRecord
    \/ AnaReturn

\* one call of analyze_content by a thread that is never kept from its
\* next step: every client call raises or gives a stream that ends, and
\* every sleep ends
SpecAnalyzeFair ==
    InitAnalyzeFair /\ [][NextAnalyzeFair]_vars /\ WF_vars(NextAnalyzeFair)

\* the steps of the collector thread, of processor thread t of
\* llama-stack-clipboard.py and of processor thread t of docs/clipboard.py
CollectorStep ==
    \/ CollectorPoll
    \/ CollectorGate
    \/ CollectorCheck
    \/ CollectorPut
    \/ CollectorExcept
    \/ CollectorSleep

ProcStep(t) ==
    \/ ProcGet(t)
    \/ ProcGetEmpty(t)
    \/ QueryCall(t)
    \/ \E valid \in BOOLEAN : QueryReturn(t, valid)
    \/ AnalyzeReturn(t)
    \/ \E opened \in BOOLEAN : SaveOpen(t, opened)
    \/ ProcExcept(t)
    \/ SaveDump(t)
    \/ SaveNewline(t)
    \/ PutResult(t)

BatchStep(t) ==
    \/ BatchTest(t)
    \/ BatchGetNowait(t)
    \/ \E outcome \in {"saved", "empty", "save_raises"} :
          BatchProcessItem(t, outcome)
    \/ BatchPutResults(t)
    \/ BatchSleep(t)

\* one loop at a time: the collector with what it finds on the clipboard
\* and a consumer of its queue, or the first processor thread with a
\* producer, or the two batch processor threads with a producer
InitLoops ==
    /\ focus \in {"collector", "processor", "batch"}
    /\ \/ focus = "collector" /\ CollInit
       \/ focus # "collector" /\ content_queue = <<>> /\ CollIdle
    /\ ProcInit /\ TrkInit /\ BatchInit /\ AnaIdle /\ ClsIdle /\ StrmIdle

NextLoops ==
    \/ focus = "collector" /\ (CollectorStep \/ QueueGet)
    \/ focus = "processor" /\ (ProducerPut \/ ProcStep(1))
    \/ focus = "batch" /\ (DocProducerPut \/ \E t \in Threads : BatchStep(t))

\* each thread that can take a step takes one in the end: the threads are
\* scheduled by the operating system and nothing in a loop waits for ever
LoopsFairness ==
    /\ WF_vars(CollectorStep)
    /\ WF_vars(ProcStep(1))
    /\ \A t \in Threads : WF_vars(BatchStep(t))

InitClassify ==
    /\ focus = "all"
    /\ content_queue = <<>> /\ CollIdle /\ ProcInit /\ TrkInit /\ BatchInit
    /\ AnaIdle /\ ClsInit /\ StrmIdle

NextClassify == ClassifyCall

\* analyze_content_type applied to one item
SpecClassify == InitClassify /\ [][NextClassify]_vars

\* the two processor threads, each scheduled again and again, with an
\* inference endpoint that answers every call
NextProcFair ==
    \/ ProducerPutUpTo(concurrent_agents)
    \/ \E t \in Threads : ProcStep(t)

\* as many items are put as there are threads
SpecProcFair ==
    /\ InitProc
    /\ [][NextProcFair]_vars
    /\ \A t \in Threads : WF_vars(ProcStep(t))

InitStream ==
    /\ focus = "all"
    /\ content_queue = <<>> /\ CollIdle /\ ProcInit /\ TrkInit /\ BatchInit
    /\ AnaIdle /\ ClsIdle /\ StrmInit

NextStream == \E d \in StreamDeltas : StreamRead(d)

\* the read loop on a stream that never ends: the endpoint always has a
\* next chunk, so the loop is never kept from its next turn
SpecStream == InitStream /\ [][NextStream]_vars /\ WF_vars(NextStream)

SpecLoops == InitLoops /\ [][NextLoops]_vars /\ LoopsFairness

----------------------------------------------------------------------------
(* Claims about the collector and the work queue *)

\* the seq numbers of the queued items increase from head to tail, and all
\* are later than the item most recently taken
QueueInCaptureOrder ==
    /\ \A i \in 1..Len(content_queue) : content_queue[i].seq > last_got
    /\ \A i \in 1..Len(content_queue) : \A j \in 1..Len(content_queue) :
          i < j => content_queue[i].seq < content_queue[j].seq

\* a capture that the collector tests against a full queue is discarded:
\* the collector goes to its sleep and the queue is as it was
FullCaptureDiscarded ==
    (cpc = "check" /\ content # None /\ cpc' # "check"
        /\ Len(content_queue) >= max_queue_size)
    => (cpc' = "sleep" /\ content_queue' = content_queue)

\* C1: with the single collector, after any sequence of captures and gets
\* the work queue holds at most max_queue_size items in capture (FIFO) order,
\* a capture that arrives while the queue is full is discarded, and the
\* collector is never inside put with the queue full (it never blocks there).
C1_QueueBound ==
    /\ [](/\ Len(content_queue) <= max_queue_size
          /\ QueueInCaptureOrder
          /\ (cpc = "put" => Len(content_queue) < max_queue_size))
    /\ [][FullCaptureDiscarded]_vars

\* the queue is full and the collector has just discarded its newest capture
C1_Witness ==
    /\ cpc = "sleep"
    /\ content # None
    /\ content[1].seq = polls
    /\ Len(content_queue) = max_queue_size
    /\ content_queue[max_queue_size].seq < content[1].seq
    /\ last_got < content[1].seq
    /\ last_got > 0

\* C2: when a poll reads the same content as the poll before it,
\* process_clipboard_content returns None, however many polls there have been.
C2_DedupIdempotent == same_as_prev => content = None

\* a second poll of a long enough text that the first poll accepted and queued
C2_Witness ==
    /\ same_as_prev
    /\ cpc = "check"
    /\ prev_capture = Some(<<TextA, None>>)
    /\ last_content_hash = MD5(TextA)
    /\ content = None
    /\ \E i \in 1..Len(content_queue) : content_queue[i].content = TextA

----------------------------------------------------------------------------
(* Claims about the processor threads *)

\* the threads inside save_to_dataset
Saving == {t \in Threads : ppc[t] \in {"save", "dump", "newline"}}

\* C3: with two processor threads, no two executions of save_to_dataset are
\* in progress at the same time.
C3_AppendsSerialized == Cardinality(Saving) <= 1

IsPrefix(s, full) ==
    /\ Len(s) <= Len(full)
    /\ \A i \in 1..Len(s) : s[i] = full[i]

\* thread t holds item n and is working on it
Holds(t, n) == ppc[t] # "get" /\ item[t] # None /\ item[t][1].seq = n

\* C6: with two processor threads, every item put on the work queue is
\* dequeued by at most one thread, and so passed to analyze_content at most
\* once (the call follows the get directly).
C6_DequeuedAtMostOnce ==
    /\ \A n \in Items : gets[n] <= 1
    /\ \A n \in Items : Cardinality({t \in Threads : Holds(t, n)}) <= 1
    /\ \A n \in Items : \A i \in 1..Len(content_queue) :
          content_queue[i].seq = n => gets[n] = 0

\* both threads are analysing, each its own item
C6_Witness ==
    /\ \A t \in Threads : ppc[t] = "query"
    /\ item[1] # item[2]
    /\ \A n \in Items : gets[n] = 1

\* the analysis of the item thread t holds has attempted every persona
Attempted(t) ==
    \/ ppc[t] \in {"save", "dump", "newline", "result", "except"}
    \/ ppc[t] = "loop" /\ agent_idx[t] > 3
    \/ ppc[t] = "get" /\ item[t] # None

\* C7: for every item the personas are queried in the order curator, analyst,
\* synthesizer, each exactly once by the end of analyze_content; a call
\* starts only when every earlier call for the item has returned, so at most
\* one inference call per item is in flight, with two threads running.
C7_PersonasInOrder ==
    /\ \A n \in Items :
          /\ IsPrefix(calls[n], <<"curator", "analyst", "synthesizer">>)
          /\ inflight[n] <= 1
    /\ \A t \in Threads : item[t] # None =>
          LET n == item[t][1].seq
          IN  /\ Attempted(t) =>
                   /\ calls[n] = <<"curator", "analyst", "synthesizer">>
                   /\ inflight[n] = 0
              /\ ppc[t] = "query" =>
                   /\ inflight[n] = 1
                   /\ Len(calls[n]) = agent_idx[t]
              /\ (ppc[t] = "loop" /\ agent_idx[t] <= 3) =>
                   /\ inflight[n] = 0
                   /\ Len(calls[n]) = agent_idx[t] - 1

\* one thread has finished an analysis in which the analyst failed while the
\* other thread has a call in flight for another item
C7_Witness ==
    \E t \in Threads : \E u \in Threads :
        /\ ppc[t] = "save"
        /\ final_response[t] = <<"curator", "synthesizer">>
        /\ calls[item[t][1].seq] = <<"curator", "analyst", "synthesizer">>
        /\ ppc[u] = "query"
        /\ item[u] # item[t]
        /\ inflight[item[u][1].seq] = 1

----------------------------------------------------------------------------
(* Claims about the tracker's lock *)

\* C4: every read and every write of key_frequency and value_frequency, in
\* add_response and in get_novelty_score, is made by a thread that holds the
\* tracker's lock at that moment.
C4_CountersUnderLock == access.thread # 0 => access.holder = access.thread

----------------------------------------------------------------------------
(* Claims about the batch processor *)

\* item n is in thread t's batch and process_content_batch has not reached it
Pending(t, n) ==
    \E i \in 1..Len(batch[t]) :
        /\ batch[t][i].seq = n
        /\ (bpc[t] = "process" => i >= bidx[t])
        /\ bpc[t] # "sleep"

\* C5: in the batch processor with two threads, every item a thread has
\* removed from the work queue is passed to query_ai exactly once: it is
\* either still waiting in that thread's batch or has been analysed once, and
\* never dropped.
C5_DequeuedIsAnalysed ==
    \A n \in Items :
        /\ doc_queried[n] <= 1
        /\ doc_gets[n] >= 1 =>
              \/ doc_queried[n] = 1
              \/ \E t \in Threads : Pending(t, n)

----------------------------------------------------------------------------
(* Claims about analyze_content and query_llama_stack *)

Failed(r) == r = <<>> \/ (Len(r) >= 6 /\ SubSeq(r, 1, 6) = ErrorPrefix)

Valid(r) == ~Failed(r)

\* C8: a response that is empty or starts with 'Error:' is not added to the
\* running context (the context is exactly the other responses, in order),
\* and the loop goes on: analyze_content never ends early, and when it
\* returns all three personas have been prompted and have answered.
C8_FailureSkipsPersonaOnly ==
    /\ agents_thoughts = SelectSeq(outcomes, Valid)
    /\ Len(a_final) = Len(agents_thoughts)
    /\ apc # "failed"
    /\ apc = "done" => Len(prompts) = Len(AgentIds)
                       /\ Len(outcomes) = Len(AgentIds)

C8_Witness ==
    /\ apc = "done"
    /\ outcomes[1] = <<>>
    /\ Len(outcomes[2]) > 6 /\ SubSeq(outcomes[2], 1, 6) = ErrorPrefix
    /\ Valid(outcomes[3])
    /\ agents_thoughts = <<outcomes[3]>>

\* text p is x \o a \o y \o b \o z for some x, y, z
InOrder(p, a, b) ==
    \E i \in 1..(Len(p) - Len(a) + 1) :
        /\ SubSeq(p, i, i + Len(a) - 1) = a
        /\ \E j \in (i + Len(a))..(Len(p) - Len(b) + 1) :
               SubSeq(p, j, j + Len(b) - 1) = b

\* the lines of r that contain a colon, without the white space around
\* them, one per line
ColonLines(r) == Join(StripAll(SelectLines(Split(r, "\n"), ":")), <<"\n">>)

PromptsKept ==
    /\ Len(prompts') >= Len(prompts)
    /\ \A k \in 1..Len(prompts) : prompts'[k] = prompts[k]

\* C9: when curator and analyst both answered validly, the synthesizer's
\* prompt contains the colon lines of the curator's response and, after
\* them, those of the analyst's; and a persona's prompt is rendered before
\* that persona or a later one has answered, from responses of earlier
\* personas only, and is never changed afterwards.
C9_ContextFlowsForward ==
    /\ [](/\ (Len(prompts) = 3 /\ Len(outcomes) >= 2
              /\ Valid(outcomes[1]) /\ Valid(outcomes[2]))
             => InOrder(prompts[3], ColonLines(outcomes[1]),
                        ColonLines(outcomes[2]))
          /\ Len(prompts) \in {Len(outcomes), Len(outcomes) + 1}
          /\ \A i \in 1..Len(thought_src) :
                 /\ thought_src[i] <= Len(outcomes)
                 /\ agents_thoughts[i] = outcomes[thought_src[i]]
          /\ apc \in {"call", "sleep", "returned"}
             => /\ Len(prompts) = a_idx
                /\ \A i \in 1..Len(thought_src) : thought_src[i] < a_idx)
    /\ [][PromptsKept]_vars

C9_Witness ==
    /\ Len(prompts) = 3
    /\ outcomes[1] = <<"a", ":", "1", "\n", "b">>
    /\ outcomes[2] = <<"c", ":", "2">>
    /\ InOrder(prompts[3], <<"a", ":", "1">>, <<"c", ":", "2">>)
    /\ ~InOrder(prompts[3], <<"b">>, <<"c", ":", "2">>)

\* C10: per prompt the client is called at most retry_attempts times; every
\* call but the last has raised; each raise that is followed by another
\* attempt is followed by one retry delay, and there is no delay before the
\* first attempt or after the last; the function always returns a response,
\* and when all the calls raised it starts with 'Error:'.
C10_BoundedRetry ==
    /\ q_calls <= retry_attempts
    /\ q_raised >= q_calls - 1
    /\ apc = "call" => q_calls = attempt /\ q_raised = attempt
                       /\ q_sleeps = attempt /\ attempt < retry_attempts
    /\ apc = "sleep" => q_raised = q_calls /\ q_sleeps = q_calls - 1
                        /\ q_calls < retry_attempts
    /\ apc = "returned" =>
          /\ q_response # None
          /\ q_sleeps = q_calls - 1
          /\ q_last = "stream" => q_raised = q_calls - 1
          /\ q_last = "raise" =>
                /\ q_raised = retry_attempts
                /\ q_calls = retry_attempts
                /\ StartsWith(q_response[1], ErrorPrefix)
          /\ q_last \in {"stream", "raise"}
    /\ apc # "failed"

C10_Witness ==
    /\ apc = "returned"
    /\ q_raised = 3
    /\ q_sleeps = 2
    /\ q_response = Some(ErrorResponse)

\* C11: a persona whose query used up the whole retry budget (its response
\* is the 'Error: Llama Stack server unavailable' text) has an entry in the
\* analysis of the item, with a response that starts with 'Error:'.
C11_ErrorEntryEmbedded ==
    \A k \in 1..Len(outcomes) :
        outcomes[k] = ErrorResponse
        => \E n \in 1..Len(a_final) :
               /\ a_final[n].agent_id = AgentIds[k]
               /\ StartsWith(a_final[n].response, ErrorPrefix)

----------------------------------------------------------------------------
(* Claims about the baseline snapshot of the NoveltyTracker *)

TrackerQuiet == \A t \in Threads : tpc[t] = "idle"

\* C12: between calls, the snapshot has been written once if at least
\* baseline_period responses were fed to add_response and not at all if
\* fewer were: the baseline_period-th response writes it and no other does.
C12_SnapshotOnBaselineResponse ==
    TrackerQuiet => snapshots = (IF trk_adds >= baseline_period THEN 1 ELSE 0)

LatchStaysClosed == ~is_baseline_period => ~is_baseline_period'

C14_MalformedLineSkipped ==
    \A t \in Threads : tcall[t].raised # "ValueError"

----------------------------------------------------------------------------
(* Claims about the response query_llama_stack builds from a stream *)

\* C15: the response text query_llama_stack returns from a stream is never
\* longer than the ceiling.
C15_ResponseWithinCeiling ==
    (apc = "returned" /\ q_last = "stream")
    => Len(q_response[1]) <= response_ceiling

\* the texts of the chunks of a stream that carry one, up to the place where
\* the iteration raises
RECURSIVE TextsOf(_)
TextsOf(stream) ==
    IF stream = <<>> \/ Head(stream).kind = "raise" THEN <<>>
    ELSE IF Head(stream).kind = "other" THEN TextsOf(Tail(stream))
    ELSE <<Head(stream).text>> \o TextsOf(Tail(stream))

\* the texts that are no repetition of an earlier one, concatenated in order
RECURSIVE DistinctConcat(_)
DistinctConcat(texts) ==
    IF texts = <<>> THEN <<>>
    ELSE LET n == Len(texts)
             before == SubSeq(texts, 1, n - 1)
         IN  DistinctConcat(before)
             \o (IF \E i \in 1..(n - 1) : texts[i] = texts[n] THEN <<>>
                 ELSE texts[n])

\* C16: the response built from a stream is, but for white space at its two
\* ends, the concatenation in arrival order of the distinct texts consumed,
\* none of them twice; the texts consumed are those up to the first one that
\* takes the response over the ceiling, or all of them.
C16_DistinctDeltasInOrder ==
    (apc = "returned" /\ q_last = "stream")
    => LET texts == TextsOf(q_stream)
       IN  \E n \in 0..Len(texts) :
               /\ q_response[1] = Strip(DistinctConcat(SubSeq(texts, 1, n)))
               /\ n < Len(texts)
                  => Len(DistinctConcat(SubSeq(texts, 1, n)))
                         > response_ceiling
               /\ \A k \in 0..(n - 1) :
                      Len(DistinctConcat(SubSeq(texts, 1, k)))
                          <= response_ceiling

\* a stream that begins with a text and repeats it: the response has it once
C16_Witness ==
    /\ apc = "returned"
    /\ q_last = "stream"
    /\ Len(q_stream) >= 2
    /\ \E i \in 1..Len(q_stream) : \E j \in (i + 1)..Len(q_stream) :
           /\ q_stream[i].kind = "delta"
           /\ q_stream[j] = q_stream[i]
    /\ q_response[1] = Strip(q_stream[1].text)

----------------------------------------------------------------------------
(* Claims about the dataset and the result queue *)

\* the places in the dataset of the records of item n
RecordsOf(n) ==
    {i \in 1..Len(dataset) : dataset[i].seq = n /\ dataset[i].part = "json"}

\* the record of item n has been written, to the end of its line
RecordComplete(n) ==
    \E i \in RecordsOf(n) : \E j \in (i + 1)..Len(dataset) :
        dataset[j].seq = n /\ dataset[j].part = "newline"

OnResultQueue(n) == \E i \in 1..Len(result_queue) : result_queue[i][1] = n

\* thread t is through with its item, with an analysis that is not empty
DoneWithAnalysis(t) ==
    ppc[t] = "get" /\ item[t] # None /\ final_response[t] # <<>>

DatasetOnlyGrows == IsPrefix(dataset, dataset')

----------------------------------------------------------------------------
(* Claims about the reporting loop of main *)

InterruptEndsMain == interrupts' > interrupts => dmpc' = "returned"

\* C18: a keyboard interrupt that arrives while main is in its reporting
\* loop, waiting on result_queue.get included, makes the loop exit and main
\* return.
C18_InterruptExitsReporting == [][InterruptEndsMain]_vars

----------------------------------------------------------------------------
(* Claims about captures discarded at a full queue *)

\* C20: after a capture was discarded because the work queue was full, and
\* for as long as the clipboard and the screenshot polled are the same, the
\* polls that follow return no item and nothing of that capture is enqueued,
\* whether or not the queue has room again.
C20_DiscardedNotRetried ==
    dropped # None
    => /\ \A i \in 1..Len(content_queue) :
              content_queue[i].seq < dropped[1].seq
       /\ (polls > dropped[1].seq /\ cpc \in {"check", "put", "sleep"})
          => content = None
       /\ polls > dropped[1].seq => cpc # "put"

\* a later poll of the same capture has returned nothing although a get had
\* made room in the queue
C20_Witness ==
    /\ dropped # None
    /\ polls > dropped[1].seq
    /\ cpc = "check"
    /\ content = None
    /\ prev_capture = Some(dropped[1].capture)
    /\ Len(content_queue) < max_queue_size

----------------------------------------------------------------------------
(* Claims about the loops of the threads *)

\* C17: an exception raised in an iteration of the collector loop or of a
\* processor loop is handled in the loop and the thread reaches the top of
\* the loop again: the collector after its except clause, a processor of
\* llama-stack-clipboard.py after its except clause, and a batch processor
\* of docs/clipboard.py after a get_nowait that may raise Empty; no thread
\* is ever at a place outside its loop.
C17_LoopsSurviveExceptions ==
    /\ [](cpc \in {"poll", "gate", "check", "put", "except", "sleep"})
    /\ [](\A t \in Threads :
             /\ ppc[t] \in {"get", "loop", "query", "save", "dump",
                            "newline", "result", "except"}
             /\ bpc[t] \in {"collect", "get_nowait", "process", "sleep"})
    /\ (cpc = "except") ~> (cpc = "poll")
    /\ (ppc[1] = "except") ~> (ppc[1] = "get")
    /\ \A t \in Threads : (bpc[t] = "get_nowait") ~> (bpc[t] = "collect")

\* the processor thread is analysing the second item after save_to_dataset
\* raised for the first
C17_Witness ==
    /\ focus = "processor"
    /\ save_failed = {1}
    /\ ppc[1] = "query"
    /\ item[1] # None
    /\ item[1][1].seq = 2

----------------------------------------------------------------------------
(* Claims about process_clipboard_content *)

\* a step that runs the body of process_clipboard_content
GateStep == cpc = "gate" /\ cpc' # "gate"

\* what the body hashes: the text, or without a text the screenshot's path
Fingerprint ==
    MD5(IF clipboard # EmptyText THEN clipboard
        ELSE IF screenshot = None THEN NoneStr ELSE screenshot[1].path)

GateEffect ==
    GateStep =>
        IF \/ Fingerprint = last_content_hash
           \/ (clipboard # EmptyText /\ Len(clipboard) < 10)
        THEN /\ cpc' = "check" /\ content' = None
             /\ last_content_hash' = last_content_hash
        ELSE last_content_hash' = Fingerprint

\* C21: process_clipboard_content returns None and leaves last_content_hash
\* as it was when the new fingerprint equals it or the clipboard has a text
\* of fewer than 10 characters; in every other case it sets
\* last_content_hash to the new fingerprint.
C21_GateFrame == [][GateEffect]_vars

\* a text too short was polled after another capture had been accepted
C21_Witness ==
    /\ cpc = "check"
    /\ prev_capture # None
    /\ prev_capture[1][1] = Short9
    /\ content = None
    /\ last_content_hash = MD5(TextA)

\* every read and every write of last_content_hash is made by the body of
\* process_clipboard_content, which runs with the lock held
HashTouchedUnderLock ==
    (GateStep \/ last_content_hash' # last_content_hash)
    => clipboard_lock = "collector"

\* C30: last_content_hash is read and written only while clipboard_lock is
\* held, and the lock is free again whenever process_clipboard_content has
\* been left, by a return or by an exception.
C30_HashUnderLock ==
    /\ [](clipboard_lock = "collector" <=> cpc = "gate")
    /\ [][GateStep => clipboard_lock' = "free"]_vars
    /\ [][HashTouchedUnderLock]_vars

\* save_image has raised after the fingerprint was stored: the lock is free
C30_Witness ==
    /\ cpc = "except"
    /\ clipboard_lock = "free"
    /\ last_content_hash # None

----------------------------------------------------------------------------
(* Claims about analyze_content_type *)

\* the scores of a text, from what the text was built of: 'import ' weighs
\* 5, 'def ' 3 and '};' 2 in the code score; '{' weighs 1, the '}' of '};'
\* weighs 1 and '"key"' 2 in the structured score
CodeScoreOf(n) == 5 * n.ni + 3 * n.nd + 2 * n.nc
StructuredScoreOf(n) == n.nb + n.nc + 2 * n.nk

DecisionRule(c) ==
    IF c.type # "text" THEN c.type
    ELSE IF CodeScoreOf(c.built) > 10 THEN "code"
    ELSE IF StructuredScoreOf(c.built) > 10 THEN "structured_data"
    ELSE "natural_text"

\* C22: analyze_content_type returns the item's own type for an item that
\* is not text; for a text it returns "code" when the code score is above
\* 10, else "structured_data" when the structured score is above 10, else
\* "natural_text"; a score of exactly 10 does not qualify and code wins
\* when both scores are above 10.
C22_DecisionRule == c_type # "" => c_type = DecisionRule(c_content)

\* both scores are above 10 and the call has returned "code"
C22_Witness ==
    /\ c_content.type = "text"
    /\ CodeScoreOf(c_content.built) > 10
    /\ StructuredScoreOf(c_content.built) > 10
    /\ c_type = "code"

\* a code score of exactly 10 has not qualified, a structured score of 11 has
C22_WitnessTen ==
    /\ c_content.type = "text"
    /\ CodeScoreOf(c_content.built) = 10
    /\ StructuredScoreOf(c_content.built) = 11
    /\ c_type = "structured_data"

----------------------------------------------------------------------------
(* Claims about the numbers of the novelty tracker *)

\* a / b < c / d and a / b <= c / d for fractions with positive denominators
FracLess(x, y) == x[1] * y[2] < y[1] * x[2]
FracLeq(x, y) == x[1] * y[2] <= y[1] * x[2]

\* the times add_response has counted k in a counter
Observed(counter, k) == IF k \in DOMAIN counter THEN counter[k] ELSE 0

\* the contribution 1.0 / (freq + 1) a read has just appended to a list
LastContribution(ds) == <<1, ds[Len(ds)]>>

FallsWithFrequency(contribution, n) ==
    /\ contribution = <<1, 1 + n>>
    /\ n > 0 => FracLess(contribution, <<1, 1>>)
    /\ \A m \in 0..n : FracLeq(contribution, <<1, 1 + m>>)

KeyContributionFalls(t) ==
    (tpc[t] = "score_key" /\ tpc'[t] = "score_value") =>
        FallsWithFrequency(
            LastContribution(tcall'[t].ks),
            Observed(key_frequency,
                     Strip(Pairs(tcall[t].arg[1])[tcall[t].i][1])))

ValueContributionFalls(t) ==
    (tpc[t] = "score_value" /\ tpc'[t] = "score_key") =>
        FallsWithFrequency(
            LastContribution(tcall'[t].vs),
            Observed(value_frequency,
                     Strip(Pairs(tcall[t].arg[1])[tcall[t].i][2])))

HasColonLine(text) ==
    \E n \in 1..Len(Split(text, "\n")) : Contains(Split(text, "\n")[n], ":")

RECURSIVE Product(_)
Product(ds) == IF ds = <<>> THEN 1 ELSE Head(ds) * Product(Tail(ds))

\* the sum of 1/d over a list, times the product of the list
RECURSIVE Numerator(_, _)
Numerator(ds, all) ==
    IF ds = <<>> THEN 0
    ELSE (Product(all) \div Head(ds)) + Numerator(Tail(ds), all)

\* value = ((sum of 1/k) / #keys + (sum of 1/v) / #values) / 2
IsAverageOfMeans(value, ks, vs) ==
    /\ ks # <<>> /\ vs # <<>>
    /\ value[1] * (2 * Product(ks) * Len(ks) * Product(vs) * Len(vs))
       = value[2] * (Numerator(ks, ks) * Product(vs) * Len(vs)
                     + Numerator(vs, vs) * Product(ks) * Len(ks))

ScoreEnded(t) == tcall[t].op = "score" /\ tpc[t] = "idle"

\* C24: get_novelty_score returns 0.0 for a text with no line that contains
\* a colon, and for every other text a value above 0 and at most 1 that is
\* the average of the mean key novelty and the mean value novelty.
C24_ScoreIsAverageOfMeans ==
    \A t \in Threads :
        ScoreEnded(t) =>
            /\ tcall[t].returned
            /\ IF ~HasColonLine(tcall[t].arg[1])
               THEN tcall[t].value = <<0, 1>>
               ELSE /\ FracLess(<<0, 1>>, tcall[t].value)
                    /\ FracLeq(tcall[t].value, <<1, 1>>)
                    /\ IsAverageOfMeans(tcall[t].value, tcall[t].ks,
                                        tcall[t].vs)

\* what holds of the calls that return: the value is the one the claim names
C24_ReturnedScoreIsAverage ==
    \A t \in Threads :
        (ScoreEnded(t) /\ tcall[t].returned) =>
            IF ~HasColonLine(tcall[t].arg[1])
            THEN tcall[t].value = <<0, 1>>
            ELSE /\ FracLess(<<0, 1>>, tcall[t].value)
                 /\ FracLeq(tcall[t].value, <<1, 1>>)
                 /\ IsAverageOfMeans(tcall[t].value, tcall[t].ks,
                                     tcall[t].vs)

\* a score below 1 has been returned for a text of two pairs
C24_ReturnedBelowOne ==
    \E t \in Threads :
        /\ ScoreEnded(t) /\ tcall[t].returned
        /\ Len(tcall[t].ks) = 2
        /\ FracLess(tcall[t].value, <<1, 1>>)

CountsKept(counter, after) ==
    \A k \in DOMAIN counter :
        k \in DOMAIN after /\ after[k] >= counter[k]

\* C25: the count stored for a key in key_frequency and for a value in
\* value_frequency never decreases.
C25_CountsNeverDecrease ==
    [][/\ CountsKept(key_frequency, key_frequency')
       /\ CountsKept(value_frequency, value_frequency')]_vars

\* a key counted twice next to another key counted once
C25_Witness ==
    /\ Observed(key_frequency, <<"a">>) = 2
    /\ Observed(key_frequency, <<"c">>) = 1

----------------------------------------------------------------------------
(* Claims about the labels and the keys of an analysis *)

IsPersonaId(x) == x \in {"curator", "analyst", "synthesizer"}

\* the labels of the blocks of a previous-thoughts text, in order
LabelsOf(prev_thoughts) == SelectSeq(prev_thoughts, IsPersonaId)

\* the ids of the personas that produced the first n - 1 recorded responses
ProducersBefore(n) ==
    [i \in 1..(n - 1) |->
        <<"curator", "analyst", "synthesizer">>[thought_src[i]]]

\* C26: in the previous-thoughts text a persona is prompted with, each
\* block is labelled with the id of the persona that produced the response
\* in that block, also when an earlier persona was skipped after an error.
C26_BlocksLabelledByProducer ==
    \A n \in 1..Len(a_final) :
        LabelsOf(a_final[n].previous_thoughts) = ProducersBefore(n)

\* without a skipped persona the labels are the producers
C26_LabelsWithoutSkip ==
    \A n \in 1..Len(a_final) :
        (\A i \in 1..(n - 1) : thought_src[i] = i)
        => LabelsOf(a_final[n].previous_thoughts) = ProducersBefore(n)

\* the ids of the personas whose response is valid, in persona order
RECURSIVE ValidPersonas(_, _)
ValidPersonas(rs, ids) ==
    IF rs = <<>> THEN <<>>
    ELSE (IF Head(rs) # <<>> /\ ~StartsWith(Head(rs), ErrorPrefix)
          THEN <<Head(ids)>> ELSE <<>>)
         \o ValidPersonas(Tail(rs), Tail(ids))

KeysOf(record) == [n \in 1..Len(record) |-> record[n].agent_id]

\* C27: the keys of an analysis record are among curator, analyst and
\* synthesizer, stand in persona order, and are those of exactly the
\* personas whose response was not empty and did not start with 'Error:'.
C27_KeysAreValidPersonas ==
    /\ \A n \in 1..Len(a_final) : IsPersonaId(a_final[n].agent_id)
    /\ KeysOf(a_final)
       = ValidPersonas(outcomes, <<"curator", "analyst", "synthesizer">>)

\* the record of a finished analysis in which only the analyst failed
C27_Witness ==
    /\ apc = "done"
    /\ KeysOf(a_final) = <<"curator", "synthesizer">>
    /\ Len(outcomes) = 3
    /\ StartsWith(outcomes[2], ErrorPrefix)

\* C28: the response recorded for a persona and appended to the running
\* context is the response cut to the per-response budget: the first
\* max_chars characters and the marker when it is longer, and so never
\* longer than max_chars characters plus the marker.
C28_ResponseTruncated ==
    \A n \in 1..Len(a_final) :
        LET r == outcomes[thought_src[n]]
            cut == IF Len(r) <= max_chars THEN r
                   ELSE SubSeq(r, 1, max_chars) \o TruncMarker
        IN  /\ a_final[n].response = cut
            /\ agents_thoughts[n] = cut
            /\ Len(a_final[n].response) <= max_chars + Len(TruncMarker)

----------------------------------------------------------------------------
(* Claims about the fingerprint of an image *)

\* the image items the collector holds or has queued
ImageItems ==
    {x \in (IF content = None THEN {} ELSE {content[1]})
           \cup {content_queue[i] : i \in 1..Len(content_queue)} :
        x.type = "image"}

\* C29: the fingerprint of an image item, the one the dedup gate stores and
\* compares, is the digest of the bytes of the image file, which is also the
\* digest that names the copy in the asset store; so the same bytes give the
\* same fingerprint and other bytes at the same path give another one.
C29_ImageFingerprintOfBytes ==
    /\ \A x \in ImageItems : x.content = <<"assets", x.hash>>
    /\ (cpc = "check" /\ content # None /\ content[1].type = "image") =>
          /\ content[1].hash = <<"md5", prev_capture[1][2][1].bytes>>
          /\ last_content_hash = <<"md5", prev_capture[1][2][1].bytes>>

\* what the code does: the fingerprint is the digest of the path, the asset
\* is named by the digest of the bytes
C29_FingerprintOfPath ==
    /\ \A x \in ImageItems : x.content[2][1] = "md5"
    /\ (cpc = "check" /\ content # None /\ content[1].type = "image") =>
          /\ content[1].hash = <<"md5", prev_capture[1][2][1].path>>
          /\ content[1].content
             = <<"assets", <<"md5", prev_capture[1][2][1].bytes>>>>

----------------------------------------------------------------------------
(* Claims about the bounded history *)

\* the last n elements of a sequence, or all of it
LastOf(seq, n) ==
    IF Len(seq) <= n THEN seq ELSE SubSeq(seq, Len(seq) - n + 1, Len(seq))

\* C31: after n add_response calls that have completed, response_history
\* holds the most recent min(n, history_size) records in arrival order: on
\* overflow the oldest record is the one that goes.
C31_HistoryKeepsNewest ==
    /\ response_history = LastOf(trk_done, history_size)
    /\ Len(response_history) <= history_size

\* more calls have completed than the history holds, and the first record
\* is gone although no later call carried the same one
C31_Witness ==
    /\ Len(trk_done) > history_size
    /\ \A i \in 2..Len(trk_done) : trk_done[i] # trk_done[1]
    /\ response_history # <<>>

----------------------------------------------------------------------------
(* Claims about the records of the dataset *)

\* the records of the dataset, without the line ends
JsonRecords == {i \in 1..Len(dataset) : dataset[i].part = "json"}

\* C32: in every dataset record, analysis_metadata.agent_count is the number
\* of agent results in the record's ai_response.
C32_AgentCountIsResults ==
    \A i \in JsonRecords :
        dataset[i].agent_count = Len(dataset[i].ai_response)

\* what the code writes: the number of configured personas, which is the
\* number of results only when no persona was skipped
C32_AgentCountIsPersonas ==
    \A i \in JsonRecords :
        /\ dataset[i].agent_count = 3
        /\ Len(dataset[i].ai_response) \in 1..3

----------------------------------------------------------------------------
(* Claims about the read loop on an endless stream *)

\* C33: reading a stream always stops: on a stream of non-empty deltas that
\* never ends, one that repeats the same delta for ever included, the loop
\* of query_llama_stack stops taking chunks after finitely many.
C33_ReadingStops == <>(s_pc = "stopped")

\* what the loop guarantees: it stops only past the ceiling, and the
\* response it has is made of deltas that differ from one another
C33_StopsOnlyPastCeiling ==
    /\ s_pc = "stopped" => Len(s_full) > response_ceiling
    /\ (s_pc = "reading" /\ s_seen # {}) => Len(s_full) <= response_ceiling
    /\ \A d \in s_seen : Len(d) <= Len(s_full)

----------------------------------------------------------------------------
(* Claims about an analysis in which every persona fails *)

\* the three personas have been asked about item n, all calls have returned
\* and none gave a valid response
AllFailed(n) ==
    /\ calls[n] = <<"curator", "analyst", "synthesizer">>
    /\ inflight[n] = 0
    /\ n \notin answered

\* C34: an item for which all three personas fail leaves no trace: the
\* processor appends no dataset record for it and puts nothing on the result
\* queue for it.
C34_AllFailedLeavesNoTrace ==
    \A n \in Items :
        AllFailed(n) =>
            /\ \A i \in 1..Len(dataset) : dataset[i].seq # n
            /\ \A i \in 1..Len(result_queue) : result_queue[i][1] # n

\* the first item failed with all personas and its thread is back at the
\* queue; the second item is saved and reported
C34_Witness ==
    /\ AllFailed(1)
    /\ \A t \in Threads : ppc[t] = "get"
    /\ \E i \in 1..Len(result_queue) : result_queue[i][1] = 2
    /\ \E i \in 1..Len(dataset) : dataset[i].seq = 2

----------------------------------------------------------------------------
(* Claims about what the gate remembers *)

\* process_clipboard_content has raised: save_image failed
GateRaises == GateStep /\ cpc' = "except"

\* C35: when process_clipboard_content raises after the gate has accepted
\* new content, because the copy into the asset store failed,
\* last_content_hash keeps the value it had, so that the same content is
\* accepted again on a later poll.
C35_RaiseKeepsHash == [][GateRaises => last_content_hash' = last_content_hash]_vars

\* what the code does: the fingerprint is stored before save_image is
\* called, and no item is returned
C35_RaiseAfterHashStored ==
    [][GateRaises => /\ last_content_hash' = Fingerprint
                     /\ last_content_hash' # last_content_hash
                     /\ content' = content]_vars

\* a text of at least 10 characters whose fingerprint is not the one stored
\* is returned as an item, whatever was accepted before the stored one
AcceptedUnlessLast ==
    (GateStep /\ Len(clipboard) >= 10
     /\ <<"md5", clipboard>> # last_content_hash)
    => /\ content' # None
       /\ content'[1].content = clipboard
       /\ cpc' = "check"

\* an item the collector puts goes to the end of the queue
PutEnqueues ==
    (cpc = "put" /\ cpc' # "put")
    => content_queue' = Append(content_queue, content[1])

\* C36: the gate compares with the most recently accepted fingerprint only:
\* for the captures A, B, A, with A and B different and long enough, all
\* three are accepted and A is enqueued twice.
C36_OnlyLastFingerprint == [][AcceptedUnlessLast /\ PutEnqueues]_vars

\* A was enqueued and taken, B was enqueued, and A is enqueued again behind B
C36_Witness ==
    /\ got_hash = Some(<<"md5", TextA>>)
    /\ last_got = 1
    /\ Len(content_queue) = 2
    /\ content_queue[1].content = TextB /\ content_queue[1].seq = 2
    /\ content_queue[2].content = TextA /\ content_queue[2].seq = 3

----------------------------------------------------------------------------
(* Claims about a stream that raises *)

\* the read loop has come to a place where the iteration raises: no earlier
\* place raises and the response has not passed the ceiling before it
ReachedRaise(stream) ==
    \E i \in 1..Len(stream) :
        /\ stream[i].kind = "raise"
        /\ \A k \in 1..(i - 1) :
               /\ stream[k].kind # "raise"
               /\ Len(DistinctConcat(TextsOf(SubSeq(stream, 1, k))))
                      <= response_ceiling

\* query_llama_stack has returned from a stream that raised
ReturnedFromRaise ==
    apc = "returned" /\ q_last = "stream" /\ ReachedRaise(q_stream)

\* the call that gave the stream is the last one: no sleep, no other attempt
NoRetryAfterStream ==
    (apc = "call" /\ q_last' = "stream")
    => /\ apc' = "returned"
       /\ attempt' = attempt
       /\ q_calls' = q_calls + 1
       /\ q_sleeps' = q_sleeps

\* the text accumulated is returned, not the 'Error:' text of the fallback
AccumulatedReturned ==
    ReturnedFromRaise
    => /\ q_response = <<Strip(DistinctConcat(TextsOf(q_stream)))>>
       /\ q_response[1] # ErrorResponse

\* the step of analyze_content after the return appends the response to
\* the context and to the analysis, under the persona's id
Recorded ==
    /\ Len(a_final') = Len(a_final) + 1
    /\ a_final'[Len(a_final')].agent_id
       = <<"curator", "analyst", "synthesizer">>[a_idx]
    /\ a_final'[Len(a_final')].response = q_response[1]
    /\ agents_thoughts' = Append(agents_thoughts, q_response[1])

RecordedWhenNotEmpty ==
    (ReturnedFromRaise /\ apc' # "returned" /\ q_response[1] # <<>>)
    => Recorded

RecordedWhenValid ==
    (ReturnedFromRaise /\ apc' # "returned")
    => IF q_response[1] # <<>> /\ ~StartsWith(q_response[1], ErrorPrefix)
       THEN Recorded
       ELSE a_final' = a_final /\ agents_thoughts' = agents_thoughts

\* C37 as stated: when the stream raises after the inference call itself
\* succeeded, query_llama_stack does not retry and returns the text
\* accumulated so far as a normal response, and analyze_content records it
\* as the persona's result when it is not empty.
C37_StreamErrorKeepsText ==
    /\ []AccumulatedReturned
    /\ [][NoRetryAfterStream /\ RecordedWhenNotEmpty]_vars

\* C37, amended: when the stream raises after the inference call itself
\* succeeded, query_llama_stack does not retry and returns the text
\* accumulated so far, not the fallback's; analyze_content records it as
\* the persona's result when it is not empty and does not start with
\* 'Error:', and skips the persona otherwise.
C37_StreamErrorKeepsValidText ==
    /\ []AccumulatedReturned
    /\ [][NoRetryAfterStream /\ RecordedWhenValid]_vars

\* a stream gave a text and then raised at the first attempt: the text is
\* what query_llama_stack has returned
C37_Witness ==
    /\ ReturnedFromRaise
    /\ q_calls = 1
    /\ q_stream[1].kind = "delta"
    /\ q_response = <<Strip(q_stream[1].text)>>
    /\ q_response[1] # <<>>

----------------------------------------------------------------------------
(* Claims about the end of analyze_content *)

\* analyze_content has returned, with an analysis or with None
AnalysisEnded == apc \in {"done", "failed"}

\* C38: for every item and every behaviour of the endpoint whose streams
\* end, analyze_content terminates, after at most 9 calls of the inference
\* client: 3 personas with at most 3 attempts each, whatever the mix of
\* successes and failures.
C38_AnalysisTerminates ==
    /\ <>AnalysisEnded
    /\ [](a_calls <= 9)
    /\ [][a_calls' \in {a_calls, a_calls + 1}]_vars

\* an analysis has ended in which every call of the client raised: 9 calls
C38_Witness ==
    /\ apc = "done"
    /\ a_calls = 9
    /\ outcomes = <<ErrorResponse, ErrorResponse, ErrorResponse>>

----------------------------------------------------------------------------
(* Claims about the progress of the processor *)

\* item n is on the work queue
Queued(n) == \E i \in 1..Len(content_queue) : content_queue[i].seq = n

\* item n has been taken from the queue and the three personas have been
\* asked about it, every call returned
Analysed(n) ==
    /\ gets[n] >= 1
    /\ calls[n] = <<"curator", "analyst", "synthesizer">>
    /\ inflight[n] = 0

\* C39 as stated: with the processor threads scheduled fairly and every
\* inference call returning, every item put on the work queue is eventually
\* dequeued and analysed, and when its analysis is not empty its result is
\* eventually put on the result queue.
C39_ItemsProcessed ==
    \A n \in Items :
        /\ Queued(n) ~> Analysed(n)
        /\ (Analysed(n) /\ n \in answered) ~> OnResultQueue(n)

\* C39, amended: under the same assumptions every item put on the work
\* queue is eventually dequeued and analysed, and when its analysis is not
\* empty its result is eventually put on the result queue unless
\* save_to_dataset raises for it; then its result is never put.
C39_ItemsProcessedUnlessSaveRaises ==
    /\ \A n \in Items :
          /\ Queued(n) ~> Analysed(n)
          /\ (Analysed(n) /\ n \in answered)
             ~> (OnResultQueue(n) \/ n \in save_failed)
    /\ [](\A n \in save_failed : ~OnResultQueue(n))

\* both items have been analysed with an answer and both results are on the
\* result queue
C39_Witness ==
    /\ answered = {1, 2}
    /\ Analysed(1) /\ Analysed(2)
    /\ OnResultQueue(1) /\ OnResultQueue(2)
    /\ save_failed = {}

====
